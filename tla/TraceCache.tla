----------------------------- MODULE TraceCache -----------------------------
(***************************************************************************)
(* The MCP server's cache of tool results (mcp-server/src/cache.ts) and    *)
(* the way every caching tool uses it (tools.ts): get, on a miss run the   *)
(* query, put, return.  The cache is a Map in insertion order bounded to   *)
(* MaxEntries; both get and put call stat() for the file's mtime, and the  *)
(* key is path, mtime and variant.                                         *)
(*                                                                         *)
(* The calls interleave at each await.  A file may be captured again       *)
(* while they run unless Quiet says it is not.                             *)
(***************************************************************************)
EXTENDS Naturals, SequencesExt

CONSTANTS Calls,        \* the tool calls
          Files,        \* the trace files
          Shapes,       \* tool and arguments of the calls about one file
          Baselines,    \* the files trace_compare is given as fileB
          NoFile,       \* not a file: fileB of every other tool
          MaxVersion,   \* bound: how often a file may be rewritten
          MaxEntries,   \* the capacity of the cache
          Quiet         \* TRUE: files change only while no call is in flight

ASSUME CacheAssumption ==
  /\ Baselines \subseteq Files /\ NoFile \notin Files
  /\ "compare" \notin Shapes
  /\ MaxVersion \in Nat \ {0}
  /\ MaxEntries \in Nat \ {0}
  /\ Quiet \in BOOLEAN

VARIABLES
  version,    \* version[f]: the contents, and the mtime, of file f
  entries,    \* the Map: a sequence of [key, value] records, oldest first
  pc,         \* pc[c]: the await the call is suspended at
  question,   \* question[c]: what was asked
  key,        \* key[c]: the key that get, then put, built
  began,      \* began[c]: the versions of all files when the run began
  value,      \* value[c]: the result computed, then returned
  floor,      \* history: the version the file had when the call looked at it
  older       \* history: <<k, j>> if key k has not been used since j was

vars == <<version, entries, pc, question, key, began, value, floor, older>>

Versions == 1 .. MaxVersion

Questions == [shape : Shapes, a : Files, b : {NoFile}]
             \cup [shape : {"compare"}, a : Files, b : Baselines]

\* A result names what it was computed from.
NoValue == [shape |-> "none", a |-> NoFile, av |-> 0, b |-> NoFile, bv |-> 0]

Values ==
  [shape : Shapes \cup {"compare"}, a : Files, av : Versions,
   b : Files \cup {NoFile}, bv : 0 .. MaxVersion]

\* variantHash leaves out fileB, like file and fileA.
MutVariantOfNothing(q) == "any"
Variant(q) == q.shape

Keys == [path : Files, mtime : Versions, variant : Shapes \cup {"compare", "any"}]

\* buildKey: the file's mtime as stat() reports it now.
MutKeyWithoutMtime(q) == [path |-> q.a, mtime |-> 1, variant |-> Variant(q)]
BuildKey(q) == [path |-> q.a, mtime |-> version[q.a], variant |-> Variant(q)]

Awaits == {"idle", "get", "run", "put", "insert", "done", "failed"}

\* The entries stay those of a map of bounded size, also when calls that
\* missed on the same key both come back to store their results.
TypeOK ==
  /\ version \in [Files -> Versions]
  /\ entries \in Seq([key : Keys, value : Values]) /\ Len(entries) <= MaxEntries
  /\ \A i, j \in DOMAIN entries : entries[i].key = entries[j].key => i = j
  /\ pc \in [Calls -> Awaits]
  /\ question \in [Calls -> Questions]
  /\ key \in [Calls -> Keys]
  /\ began \in [Calls -> [Files -> Versions]]
  /\ value \in [Calls -> Values \cup {NoValue}]
  /\ floor \in [Calls -> Versions]
  /\ older \subseteq Keys \X Keys

Init ==
  /\ version = [f \in Files |-> 1]
  /\ entries = <<>> /\ older = {}
  /\ pc = [c \in Calls |-> "idle"]
  /\ \E q \in Questions : /\ question = [c \in Calls |-> q]
                          /\ key = [c \in Calls |-> BuildKey(q)]
  /\ began = [c \in Calls |-> version]
  /\ value = [c \in Calls |-> NoValue]
  /\ floor = [c \in Calls |-> 1]

-----------------------------------------------------------------------------
(* The Map.                                                                *)

KeysOf(es) == {es[i].key : i \in 1 .. Len(es)}

PositionOf(k) == CHOOSE i \in 1 .. Len(entries) : entries[i].key = k

\* The use of a key, by a hit or a first insertion: it is younger than those
\* that are in the Map.
Used(k) ==
  {p \in older : p[1] # k} \cup {<<j, k>> : j \in KeysOf(entries) \ {k}}

\* A hit: the entry is deleted and set again, which makes it the youngest.
MutGetWithoutBump(k) == entries
Bumped(k) == Append(RemoveAt(entries, PositionOf(k)), entries[PositionOf(k)])

\* Map.set: an entry that exists keeps its place.
MutAppendAlways(k, v) == Append(entries, [key |-> k, value |-> v])
WithEntry(k, v) ==
  IF k \in KeysOf(entries)
  THEN [entries EXCEPT ![PositionOf(k)].value = v]
  ELSE Append(entries, [key |-> k, value |-> v])

\* While the Map is over capacity its oldest entry goes.
MutEvictOneTooFew(es) ==
  IF Len(es) <= MaxEntries + 1 THEN es ELSE SubSeq(es, Len(es) - MaxEntries, Len(es))
Trimmed(es) ==
  IF Len(es) <= MaxEntries THEN es ELSE SubSeq(es, Len(es) - MaxEntries + 1, Len(es))

-----------------------------------------------------------------------------
(* A tool call.                                                            *)

\* get() is called and its stat() succeeds; the lookup comes later.
Ask(c, q) ==
  /\ pc[c] = "idle"
  /\ question' = [question EXCEPT ![c] = q]
  /\ key' = [key EXCEPT ![c] = BuildKey(q)]
  /\ floor' = [floor EXCEPT ![c] = version[q.a]]
  /\ pc' = [pc EXCEPT ![c] = "get"]
  /\ UNCHANGED <<version, entries, began, value, older>>

Hit(c) ==
  /\ pc[c] = "get" /\ key[c] \in KeysOf(entries)
  /\ entries' = Bumped(key[c])
  /\ older' = Used(key[c])
  /\ value' = [value EXCEPT ![c] = entries[PositionOf(key[c])].value]
  /\ pc' = [pc EXCEPT ![c] = "done"]
  /\ UNCHANGED <<version, question, key, began, floor>>

\* A miss: the query runs, in a child process or through the daemon.
Miss(c) ==
  /\ pc[c] = "get" /\ key[c] \notin KeysOf(entries)
  /\ began' = [began EXCEPT ![c] = version]
  /\ pc' = [pc EXCEPT ![c] = "run"]
  /\ UNCHANGED <<version, entries, question, key, value, floor, older>>

\* The run ends.  It read each file at some moment since it began.
RunDone(c) ==
  /\ pc[c] = "run"
  /\ LET q == question[c] IN
     \E av \in began[c][q.a] .. version[q.a] :
     \E bv \in IF q.b = NoFile THEN {0} ELSE began[c][q.b] .. version[q.b] :
        value' = [value EXCEPT ![c] =
                    [shape |-> q.shape, a |-> q.a, av |-> av, b |-> q.b, bv |-> bv]]
  /\ pc' = [pc EXCEPT ![c] = "put"]
  /\ UNCHANGED <<version, entries, question, key, began, floor, older>>

\* put() looks at the file again for the key to store under.
StatForPut(c) ==
  /\ pc[c] = "put"
  /\ key' = [key EXCEPT ![c] = BuildKey(question[c])]
  /\ pc' = [pc EXCEPT ![c] = "insert"]
  /\ UNCHANGED <<version, entries, question, began, value, floor, older>>

Insert(c) ==
  /\ pc[c] = "insert"
  /\ entries' = Trimmed(WithEntry(key[c], value[c]))
  /\ older' = IF key[c] \in KeysOf(entries) THEN older ELSE Used(key[c])
  /\ pc' = [pc EXCEPT ![c] = "done"]
  /\ UNCHANGED <<version, question, key, began, value, floor>>

\* stat() fails in get or put, or the run fails: the call rejects, in put
\* with the result already computed.
Fail(c) ==
  /\ pc[c] \in {"idle", "run", "put"}
  /\ pc' = [pc EXCEPT ![c] = "failed"]
  /\ value' = [value EXCEPT ![c] = NoValue]
  /\ UNCHANGED <<version, entries, question, key, began, floor, older>>

\* The trace is captured again.
Rewrite(f) ==
  /\ version[f] < MaxVersion
  /\ Quiet => \A c \in Calls : pc[c] \in {"idle", "done", "failed"}
  /\ version' = [version EXCEPT ![f] = @ + 1]
  /\ UNCHANGED <<entries, pc, question, key, began, value, floor, older>>

Next ==
  \/ \E c \in Calls : \/ \E q \in Questions : Ask(c, q)
                      \/ Hit(c) \/ Miss(c) \/ RunDone(c)
                      \/ StatForPut(c) \/ Insert(c) \/ Fail(c)
  \/ \E f \in Files : Rewrite(f)

Spec == Init /\ [][Next]_vars

-----------------------------------------------------------------------------
(* Properties.                                                             *)

\* The call is answered with the answer to its own question: the result of
\* this tool with these arguments on this file.
AnswersOwnQuestion ==
  \A c \in Calls : pc[c] = "done" =>
    /\ value[c].shape = question[c].shape
    /\ value[c].a = question[c].a

\* "Excludes file/fileA/fileB (those are part of the cache key separately)": a
\* comparison that is found in the cache is one with the file that was asked for.
ComparesWithBaseline ==
  \A c \in Calls : pc[c] = "done" => value[c].b = question[c].b

\* What put() evicts is what has gone longest without a hit or a first
\* insertion.
EvictsLeastRecentlyUsed ==
  [][\A k \in KeysOf(entries) \ KeysOf(entries') :
       \A j \in KeysOf(entries) \cap KeysOf(entries') : <<k, j>> \in older]_vars

\* "When a .utrace file is overwritten (mtime bumps), all cache entries for
\* that file invalidate": no call is answered from contents older than those
\* its own stat() saw.
NeverStale ==
  \A c \in Calls : pc[c] = "done" => value[c].av >= floor[c]

\* What the caller of a tool sees of it.
ServiceState ==
  [c \in Calls |->
     CASE pc[c] = "idle"   -> "idle"
       [] pc[c] = "done"   -> "answered"
       [] pc[c] = "failed" -> "settled"
       [] OTHER            -> "pending"]
ServiceGot == [c \in Calls |-> IF pc[c] = "done" THEN value[c].av ELSE 0]

\* Behind the cache a tool keeps the promise of the daemon layer: an answer
\* comes from contents the file had since the call looked at it.
Service == INSTANCE TraceService WITH
  state <- ServiceState,
  about <- [c \in Calls |-> question[c].a],
  got   <- ServiceGot

ImplementsService == Service!Spec
=============================================================================
