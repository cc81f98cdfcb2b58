---------------------------- MODULE MemoryStore ----------------------------
(***************************************************************************)
(* LocalJSONMemoryStore of finops_core/memory/store.py: the file of facts  *)
(* an agent remembers from one session to the next.  Sessions are separate *)
(* processes (a CLI chat, the API, the dashboard) that share the file and  *)
(* no lock; add and search contain no await, so a session does one of them *)
(* at a time.                                                              *)
(*                                                                         *)
(* A save writes <file>.tmp and renames it over the file.  All sessions    *)
(* use the same temporary name, and a process that has a file open goes on *)
(* writing to it after a rename: the model has files (inodes) and the two  *)
(* names that point to them.  An entry's metadata is stored beside its     *)
(* content and decides nothing; it is left out.                            *)
(***************************************************************************)
EXTENDS Integers, Sequences, FiniteSets, SequencesExt

CONSTANTS
  Sessions,    \* processes using one memory namespace
  Topics,      \* what a fact is about
  Accounts,    \* 12-digit account ids
  Told,        \* facts given to add
  Queries,     \* queries, as the score_overlap of each topic with them
  Limits,      \* how many results a search may be asked for
  Empty, Torn, \* a file without text, text that is no JSON document
  None         \* no file, no account id, no call

Masked == "************"
Facts == [topic : Topics, account : Accounts \cup {None, Masked}]

ASSUME MemoryAssumption ==
  /\ IsFiniteSet(Sessions)
  /\ Told \subseteq Facts
  /\ {Empty, Torn} \cap Seq(Facts) = {}
  /\ Queries \subseteq [Topics -> Nat] /\ Limits \subseteq Nat \ {0}

VARIABLES
  inode,    \* the contents of each file
  path,     \* the file named <namespace>.json
  tmp,      \* the file named <namespace>.json.tmp
  pc,       \* where each session is in add or search
  call,     \* the session's arguments, what it read and the file it has open
  kept,     \* history: facts whose add has returned
  forgotten,\* history: the facts of a file whose read failed, until told again
  overlap   \* history: two adds were in progress at once

vars == <<inode, path, tmp, pc, call, kept, forgotten, overlap>>

\* Enough files for the two names and one left open by each session.
Files   == 1 .. Cardinality(Sessions) + 2
Steps   == {"idle", "load", "open", "write", "replace"}
NoCall  == [content |-> None, entries |-> <<>>, fd |-> None]

Init ==
  /\ inode = [f \in Files |-> Empty]
  /\ path = None /\ tmp = None
  /\ pc = [s \in Sessions |-> "idle"]
  /\ call = [s \in Sessions |-> NoCall]
  /\ kept = {} /\ forgotten = {}
  /\ overlap = FALSE

Goto(s, step) == pc' = [pc EXCEPT ![s] = step]

\* A missing or empty file, or one that does not parse, is an empty memory.
Stored == IF path = None \/ inode[path] \in {Empty, Torn} THEN <<>> ELSE inode[path]

\* _load: so is a file that is whole, when reading it fails.
Load == {Stored, <<>>}

Redact(v) == [v EXCEPT !.account = IF @ = None THEN None ELSE Masked]

Holds(entries, content) == content \in ToSet(entries)

-----------------------------------------------------------------------------
BeginAdd(s, fact) ==
  /\ pc[s] = "idle"
  /\ call' = [call EXCEPT ![s].content = Redact(fact)]
  /\ overlap' = (overlap \/ \E u \in Sessions : pc[u] # "idle")
  /\ Goto(s, "load")
  /\ UNCHANGED <<inode, path, tmp, kept, forgotten>>

Return(s) ==
  /\ kept' = kept \cup {call[s].content}
  /\ forgotten' = forgotten \ {call[s].content}
  /\ call' = [call EXCEPT ![s] = NoCall]
  /\ Goto(s, "idle")

AlreadyKnown(s) ==
  /\ pc[s] = "load"
  /\ Holds(Stored, call[s].content)
  /\ Return(s)
  /\ UNCHANGED <<inode, path, tmp, overlap>>

\* Mutant of AppendNew: entries holds the new fact alone.
AppendForgets(s) ==
  /\ pc[s] = "load"
  /\ ~Holds(Stored, call[s].content)
  /\ call' = [call EXCEPT ![s].entries = <<call[s].content>>]
  /\ Goto(s, "open")
  /\ UNCHANGED <<inode, path, tmp, kept, forgotten, overlap>>

\* Mutant of AppendNew: a fact that is known is added again.
AppendAgain(s) ==
  /\ pc[s] = "load"
  /\ call' = [call EXCEPT ![s].entries = Append(Stored, call[s].content)]
  /\ Len(Stored) < 4
  /\ Goto(s, "open")
  /\ UNCHANGED <<inode, path, tmp, kept, forgotten, overlap>>

AppendNew(s) ==
  /\ pc[s] = "load"
  /\ \E entries \in Load :
       /\ ~Holds(entries, call[s].content)
       /\ call' = [call EXCEPT ![s].entries = Append(entries, call[s].content)]
       /\ forgotten' = forgotten \cup (ToSet(Stored) \ ToSet(entries))
  /\ Goto(s, "open")
  /\ UNCHANGED <<inode, path, tmp, kept, overlap>>

\* write_text opens the temporary file, creating or emptying it.
InUse == {path, tmp} \cup {call[s].fd : s \in Sessions}
NewFile == CHOOSE f \in Files : f \notin InUse

\* Mutant of OpenTmp: the file itself is opened and emptied.
OpenInPlace(s) ==
  /\ pc[s] = "open"
  /\ LET f == IF path = None THEN NewFile ELSE path IN
       /\ inode' = [inode EXCEPT ![f] = Empty]
       /\ path' = f
       /\ call' = [call EXCEPT ![s].fd = f]
  /\ Goto(s, "write")
  /\ UNCHANGED <<tmp, kept, forgotten, overlap>>

OpenTmp(s) ==
  /\ pc[s] = "open"
  /\ LET f == IF tmp = None THEN NewFile ELSE tmp IN
       /\ inode' = [inode EXCEPT ![f] = Empty]
       /\ tmp' = f
       /\ call' = [call EXCEPT ![s].fd = f]
  /\ Goto(s, "write")
  /\ UNCHANGED <<path, kept, forgotten, overlap>>

\* The text goes to the start of the file.  Another session's longer text
\* sticks out behind it, and the two together are no JSON document.
AfterWrite(old, new) == IF old = Empty THEN {new} ELSE {new, Torn}

WriteTmp(s) ==
  /\ pc[s] = "write"
  /\ \E text \in AfterWrite(inode[call[s].fd], call[s].entries) :
       inode' = [inode EXCEPT ![call[s].fd] = text]
  /\ call' = [call EXCEPT ![s].fd = None]
  /\ Goto(s, "replace")
  /\ UNCHANGED <<path, tmp, kept, forgotten, overlap>>

\* The file that had the name before is gone unless a session has it open.
Unlink ==
  inode' = [f \in Files |->
    IF f = path /\ \A s \in Sessions : call[s].fd # f THEN Empty ELSE inode[f]]

\* os.replace(tmp, path)
Replace(s) ==
  /\ pc[s] = "replace"
  /\ tmp # None
  /\ path' = tmp
  /\ tmp' = None
  /\ Return(s)
  /\ Unlink
  /\ UNCHANGED overlap

\* Mutant of Leave: the temporary file stays open.
LeaveOpen(s) ==
  /\ call' = [call EXCEPT ![s] = [NoCall EXCEPT !.fd = call[s].fd]]
  /\ Goto(s, "idle")
  /\ UNCHANGED <<path, tmp, kept, forgotten, overlap>>

Leave(s) ==
  /\ call' = [call EXCEPT ![s] = NoCall]
  /\ Goto(s, "idle")
  /\ UNCHANGED <<path, tmp, kept, forgotten, overlap>>

\* Another session has already renamed the temporary file: FileNotFoundError.
ReplaceFails(s) == pc[s] = "replace" /\ tmp = None /\ Leave(s) /\ UNCHANGED inode

\* The process dies, or an OSError reaches the caller; a write may be half done.
Abort(s) ==
  /\ pc[s] # "idle"
  /\ \/ UNCHANGED inode
     \/ pc[s] = "write" /\ inode' = [inode EXCEPT ![call[s].fd] = Torn]
  /\ Leave(s)

-----------------------------------------------------------------------------
\* Mutant of Sooner: ties in the order of the file, oldest first.
SoonerOldest(query, entries, i, j) ==
  LET si == query[entries[i].topic]
      sj == query[entries[j].topic]
  IN si > sj \/ (si = sj /\ i < j)

\* The key of scored.sort: score and index, both descending.
Sooner(query, entries, i, j) ==
  LET si == query[entries[i].topic]
      sj == query[entries[j].topic]
  IN si > sj \/ (si = sj /\ i > j)

\* The entries with a score above zero, as indices; the others are dropped.
Scored(query, entries) == {i \in DOMAIN entries : query[entries[i].topic] > 0}

\* How many of them come before i.
Place(query, entries, i) == Cardinality({j \in Scored(query, entries) : Sooner(query, entries, j, i)})

Ranking(query, entries) ==
  [p \in 1 .. Cardinality(Scored(query, entries)) |->
     CHOOSE i \in Scored(query, entries) : Place(query, entries, i) = p - 1]

\* search(query): the hits, as indices of the entries it read.
Hits(query, entries, limit) ==
  LET ranked == Ranking(query, entries)
  IN SubSeq(ranked, 1, IF Len(ranked) < limit THEN Len(ranked) ELSE limit)

Next ==
  \E s \in Sessions :
    \/ \E fact \in Told : BeginAdd(s, fact)
    \/ AlreadyKnown(s)
    \/ AppendNew(s)
    \/ OpenTmp(s)
    \/ WriteTmp(s)
    \/ Replace(s)
    \/ ReplaceFails(s)
    \/ Abort(s)

Spec == Init /\ [][Next]_vars

-----------------------------------------------------------------------------
Calls == [content : Facts \cup {None}, entries : Seq(Facts), fd : Files \cup {None}]

TypeOK ==
  /\ inode \in [Files -> Seq(Facts) \cup {Empty, Torn}]
  /\ path \in Files \cup {None} /\ tmp \in Files \cup {None}
  /\ path # None => path # tmp
  /\ pc \in [Sessions -> Steps]
  /\ call \in [Sessions -> Calls]
  /\ \A s \in Sessions : call[s].fd \in IF pc[s] = "write" THEN Files ELSE {None}
  /\ kept \in SUBSET Facts /\ forgotten \in SUBSET Facts

\* No fact is remembered twice, however the extraction repeats itself and
\* whatever another session saves meanwhile (store.py:76).
NoDuplicates ==
  \A i, j \in DOMAIN Stored : Stored[i] = Stored[j] => i = j

\* The file is swapped whole: whoever opens it finds a complete document
\* (store.py:63, "atomic swap").
FileComplete == path # None => inode[path] \notin {Empty, Torn}

\* A fact whose add has returned is durable (memory/__init__.py:3, "durable recall"), as
\* long as adds do not overlap: wherever one of them stops or fails, the file is a whole
\* document, and the only facts it may have lost are those it had when the read of a
\* later add failed.
SerialDurableFacts ==
  overlap \/ (FileComplete /\ \A fact \in kept \ forgotten : Holds(Stored, fact))

\* A search ranks what it read: it answers entries that match, each once and no
\* more than it was asked for, the best scores first and of equal scores the
\* newest; what it leaves out scores nothing, or would come after all of a full
\* answer.
SearchRanks ==
  \A query \in Queries, limit \in Limits, entries \in Load :
    LET hits        == Hits(query, entries, limit)
        Value(i)    == query[entries[i].topic]
        Better(i, j) == Value(i) > Value(j) \/ (Value(i) = Value(j) /\ i > j)
    IN /\ Len(hits) <= limit
       /\ \A p \in DOMAIN hits : hits[p] \in DOMAIN entries /\ Value(hits[p]) > 0
       /\ \A p, q \in DOMAIN hits : p < q => Better(hits[p], hits[q])
       /\ \A i \in DOMAIN entries : i \notin ToSet(hits) /\ Value(i) > 0 =>
            Len(hits) = limit /\ \A p \in DOMAIN hits : Better(hits[p], i)

=============================================================================
