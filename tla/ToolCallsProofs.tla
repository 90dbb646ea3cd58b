--------------------------- MODULE ToolCallsProofs --------------------------
(***************************************************************************)
(* Theorems about ToolCalls: what a client asks reaches the mode, for any  *)
(* texts, numbers and ranges it may give, and a one-shot run gives what    *)
(* its child printed, for any limits and any outputs.                      *)
(***************************************************************************)
EXTENDS ToolCalls, SequenceTheorems, TLAPS

-----------------------------------------------------------------------------
(* The tools.                                                              *)

\* The umbrella modes.
Umbrellas == {"gpu", "memory", "allocations", "asset", "net"}

\* What every tool has to be for its arguments to arrive: the arguments are
\* flags, its view is one of its mode's, a mode that requires an argument is
\* asked by tools that require it, and the variant holds all that is sent.
Sound(t) ==
  /\ t.needs \subseteq Flags \ {"view"} /\ t.may \subseteq Flags \ {"view"}
  /\ t.variant = NotCached \/ t.needs \cup t.may \subseteq t.variant \cup {"file2"}
  /\ t.mode \notin Umbrellas => t.view = ""
  /\ t.mode = "gpu" => t.view \in {"queues", "timeline", "fences"}
  /\ t.mode = "memory" => t.view \in {"trackers", "tags", "samples"}
  /\ t.mode = "allocations" => t.view \in {"timeline", "heaps", "query"}
  /\ t.mode = "asset" => t.view \in {"packages", "requests", "exports"}
  /\ t.mode = "net" => t.view \in {"instances", "connections", "packets", "objects"}
  /\ t.mode = "compare" => "file2" \in t.needs
  /\ t.mode \in {"timeline", "callers", "callees"} => "event" \in t.needs
  /\ t.mode = "frame" => "frame" \in t.needs
  /\ t.view = "samples" => "tag" \in t.needs
  /\ t.view = "query" => "rule" \in t.needs
  /\ t.mode = "query" => "intent" \in t.needs
  /\ t.mode = "callstack" => "callstackId" \in t.needs
  /\ t.mode = "task_drill" => "taskId" \in t.needs
  /\ t.view = "packets" => "connectionId" \in t.needs
  /\ t.mode \in {"digest", "timeline", "callers", "callees", "compare"} => "channel" \in t.needs

\* The tools about timings.
LEMMA TimingsSound == \A n \in DOMAIN Timings : Sound(Timings[n])
  <1> USE DEF Flags, Texts, Numbers, NotCached
  <1>1. Sound(Timings.trace_overview)
    BY DEF Sound, Tool, Umbrellas, Timings
  <1>2. Sound(Timings.trace_digest)
    BY DEF Sound, Tool, Umbrellas, Timings
  <1>3. Sound(Timings.trace_timeline)
    BY DEF Sound, Tool, Umbrellas, Timings, Timeline
  <1>4. Sound(Timings.trace_frames)
    BY DEF Sound, Tool, Umbrellas, Timings
  <1>5. Sound(Timings.trace_frame)
    BY DEF Sound, Tool, Umbrellas, Timings
  <1>6. Sound(Timings.trace_callers)
    BY DEF Sound, Tool, Umbrellas, Timings
  <1>7. Sound(Timings.trace_callees)
    BY DEF Sound, Tool, Umbrellas, Timings
  <1>8. Sound(Timings.trace_cpu_threads)
    BY DEF Sound, Tool, Umbrellas, Timings
  <1>9. Sound(Timings.trace_compare)
    BY DEF Sound, Tool, Umbrellas, Timings
  <1>10. DOMAIN Timings = {"trace_overview", "trace_digest", "trace_timeline", "trace_frames", "trace_frame", "trace_callers", "trace_callees", "trace_cpu_threads", "trace_compare"}
    BY DEF Timings
  <1>11. QED
    BY <1>1, <1>2, <1>3, <1>4, <1>5, <1>6, <1>7, <1>8, <1>9, <1>10

\* The tools about channels, queues, counters and messages.
LEMMA ChannelsSound == \A n \in DOMAIN Channels : Sound(Channels[n])
  <1> USE DEF Flags, Texts, Numbers, NotCached
  <1>1. Sound(Channels.trace_channels)
    BY DEF Sound, Tool, Umbrellas, Channels
  <1>2. Sound(Channels.trace_gpu_queues)
    BY DEF Sound, Tool, Umbrellas, Channels
  <1>3. Sound(Channels.trace_gpu_fences)
    BY DEF Sound, Tool, Umbrellas, Channels
  <1>4. Sound(Channels.trace_counter_catalogue)
    BY DEF Sound, Tool, Umbrellas, Channels
  <1>5. Sound(Channels.trace_counter_series)
    BY DEF Sound, Tool, Umbrellas, Channels
  <1>6. Sound(Channels.trace_bookmark_list)
    BY DEF Sound, Tool, Umbrellas, Channels
  <1>7. Sound(Channels.trace_region_list)
    BY DEF Sound, Tool, Umbrellas, Channels
  <1>8. Sound(Channels.trace_log_messages)
    BY DEF Sound, Tool, Umbrellas, Channels
  <1>9. DOMAIN Channels = {"trace_channels", "trace_gpu_queues", "trace_gpu_fences", "trace_counter_catalogue", "trace_counter_series", "trace_bookmark_list", "trace_region_list", "trace_log_messages"}
    BY DEF Channels
  <1>10. QED
    BY <1>1, <1>2, <1>3, <1>4, <1>5, <1>6, <1>7, <1>8, <1>9

\* The tools about memory.
LEMMA MemorySound == \A n \in DOMAIN Memory : Sound(Memory[n])
  <1> USE DEF Flags, Texts, Numbers, NotCached
  <1>1. Sound(Memory.trace_memory_trackers)
    BY DEF Sound, Tool, Umbrellas, Memory
  <1>2. Sound(Memory.trace_memory_tags)
    BY DEF Sound, Tool, Umbrellas, Memory
  <1>3. Sound(Memory.trace_memory_samples)
    BY DEF Sound, Tool, Umbrellas, Memory
  <1>4. Sound(Memory.trace_memalloc_timeline)
    BY DEF Sound, Tool, Umbrellas, Memory
  <1>5. Sound(Memory.trace_memalloc_heaps)
    BY DEF Sound, Tool, Umbrellas, Memory
  <1>6. Sound(Memory.trace_memalloc_query)
    BY DEF Sound, Tool, Umbrellas, Memory
  <1>7. DOMAIN Memory = {"trace_memory_trackers", "trace_memory_tags", "trace_memory_samples", "trace_memalloc_timeline", "trace_memalloc_heaps", "trace_memalloc_query"}
    BY DEF Memory
  <1>8. QED
    BY <1>1, <1>2, <1>3, <1>4, <1>5, <1>6, <1>7

\* The tools about callstacks, tasks, assets, the network, and queries.
LEMMA WindowsSound == \A n \in DOMAIN Windows : Sound(Windows[n])
  <1> USE DEF Flags, Texts, Numbers, NotCached
  <1>1. Sound(Windows.trace_callstack)
    BY DEF Sound, Tool, Umbrellas, Windows
  <1>2. Sound(Windows.trace_modules)
    BY DEF Sound, Tool, Umbrellas, Windows
  <1>3. Sound(Windows.trace_task_list)
    BY DEF Sound, Tool, Umbrellas, Windows
  <1>4. Sound(Windows.trace_task_drill)
    BY DEF Sound, Tool, Umbrellas, Windows
  <1>5. Sound(Windows.trace_asset_packages)
    BY DEF Sound, Tool, Umbrellas, Windows
  <1>6. Sound(Windows.trace_asset_requests)
    BY DEF Sound, Tool, Umbrellas, Windows
  <1>7. Sound(Windows.trace_asset_exports)
    BY DEF Sound, Tool, Umbrellas, Windows
  <1>8. Sound(Windows.trace_net_instances)
    BY DEF Sound, Tool, Umbrellas, Windows
  <1>9. Sound(Windows.trace_net_connections)
    BY DEF Sound, Tool, Umbrellas, Windows
  <1>10. Sound(Windows.trace_net_packets)
    BY DEF Sound, Tool, Umbrellas, Windows
  <1>11. Sound(Windows.trace_net_objects)
    BY DEF Sound, Tool, Umbrellas, Windows
  <1>12. Sound(Windows.trace_query)
    BY DEF Sound, Tool, Umbrellas, Windows
  <1>13. DOMAIN Windows = {"trace_callstack", "trace_modules", "trace_task_list", "trace_task_drill", "trace_asset_packages", "trace_asset_requests", "trace_asset_exports", "trace_net_instances", "trace_net_connections", "trace_net_packets", "trace_net_objects", "trace_query"}
    BY DEF Windows
  <1>14. QED
    BY <1>1, <1>2, <1>3, <1>4, <1>5, <1>6, <1>7, <1>8, <1>9, <1>10, <1>11, <1>12, <1>13

\* Every tool can be understood.
LEMMA AllSound == \A n \in DOMAIN AllTools : Sound(AllTools[n])
  <1> SUFFICES ASSUME NEW n \in DOMAIN AllTools PROVE Sound(AllTools[n])
    OBVIOUS
  <1>1. n \in DOMAIN Timings \cup DOMAIN Channels \cup DOMAIN Memory \cup DOMAIN Windows
    BY DEF AllTools
  <1>2. \/ n \in DOMAIN Timings /\ AllTools[n] = Timings[n]
        \/ n \in DOMAIN Channels /\ AllTools[n] = Channels[n]
        \/ n \in DOMAIN Memory /\ AllTools[n] = Memory[n]
        \/ n \in DOMAIN Windows /\ AllTools[n] = Windows[n]
    BY <1>1 DEF AllTools
  <1>3. QED
    BY <1>2, TimingsSound, ChannelsSound, MemorySound, WindowsSound

-----------------------------------------------------------------------------
(* Questions, and the lists of flags.                                      *)

\* The view a tool asks for, as the arguments hold it.
ViewFlag(t) == IF t.view = "" THEN {} ELSE {"view"}

\* A question gives what its tool needs and its view, and perhaps what it may,
\* each with a value that the schema allows.
LEMMA QuestionShape ==
  ASSUME NEW t, Sound(t), NEW q \in QuestionsOf(t)
  PROVE  /\ t.needs \cup ViewFlag(t) \subseteq DOMAIN q
         /\ DOMAIN q \subseteq t.needs \cup ViewFlag(t) \cup t.may
         /\ \A f \in DOMAIN q : q[f] \in Schema(t, f)
         /\ DOMAIN q \subseteq Flags
         /\ "view" \in DOMAIN q <=> t.view # ""
  <1> DEFINE given == {t.needs \cup ViewFlag(t) \cup m :
                         m \in {m \in SUBSET t.may : Cardinality(m) <= MostGiven}}
             Pairs(fs) == UNION {{<<f, v>> : v \in Schema(t, f)} : f \in fs}
             Filled(fs) == {[f \in fs |-> choice[f][2]] :
                              choice \in {c \in [fs -> Pairs(fs)] : \A f \in fs : c[f][1] = f}}
  <1>8. QuestionsOf(t) = UNION {Filled(fs) : fs \in given}
    BY DEF QuestionsOf, ViewFlag
  <1>9. PICK fs \in given : q \in Filled(fs)
    <2> HIDE DEF given, Filled
    <2>1. QED
      BY <1>8
  <1>1. PICK more \in SUBSET t.may : fs = t.needs \cup ViewFlag(t) \cup more
    OBVIOUS
  <1> DEFINE flags == t.needs \cup ViewFlag(t) \cup more
  <1>7. PICK choice \in [flags -> Pairs(flags)] :
          /\ \A f \in flags : choice[f][1] = f
          /\ q = [f \in flags |-> choice[f][2]]
    BY <1>1, <1>9
  <1>2. DOMAIN q = flags
    BY <1>7
  <1>3. ASSUME NEW f \in DOMAIN q PROVE q[f] \in Schema(t, f)
    <2>1. choice[f] \in Pairs(flags) /\ choice[f][1] = f
      BY <1>7, <1>2
    <2>2. PICK g \in flags : \E v \in Schema(t, g) : choice[f] = <<g, v>>
      BY <2>1
    <2>3. PICK v \in Schema(t, g) : choice[f] = <<g, v>>
      BY <2>2
    <2>4. g = f /\ q[f] = v
      BY <1>7, <1>2, <2>1, <2>3
    <2>5. QED
      BY <2>3, <2>4
  <1>4. ViewFlag(t) \subseteq {"view"} /\ ("view" \in ViewFlag(t) <=> t.view # "")
    BY DEF ViewFlag
  <1>5. "view" \notin t.needs /\ "view" \notin t.may /\ "view" \in Flags
        /\ t.needs \subseteq Flags /\ t.may \subseteq Flags
    BY DEF Sound, Flags, Texts
  <1>6. QED
    BY <1>2, <1>3, <1>4, <1>5

\* No list of flags forgets one.
LEMMA ListsComplete == ArgvFlags = Flags /\ LineFlags = Flags /\ ReadFlags = Flags
  BY DEF ArgvFlags, LineFlags, ReadFlags, Flags, Texts, Numbers

\* Both routes send what is given.
LEMMA SentAlike ==
  ASSUME NEW q, DOMAIN q \subseteq Flags
  PROVE  /\ daemonLine(q) = [f \in Given(q) |-> q[f]]
         /\ buildBinaryArgv(q) = [f \in Given(q) |-> q[f]]
  <1>1. Flags \cap Given(q) = Given(q)
    BY DEF Given
  <1>2. QED
    BY <1>1, ListsComplete DEF daemonLine, buildBinaryArgv, Sent

\* The mode reads the flag it is given, or the default.
LEMMA Reads ==
  ASSUME NEW mode, NEW way, NEW line, NEW f \in Flags
  PROVE  LET sent == IF f \notin DOMAIN line THEN NotGiven[f]
                     ELSE IF f \in Texts THEN TextOf(line, f, way) ELSE line[f]
         IN  Parse(mode, line, way)[f] =
               CASE f \in {"queryTimeoutMs", "buckets", "limit"} ->
                      IF sent <= 0 THEN NotGiven[f] ELSE sent
                 [] f = "channel" -> IF sent = <<>> THEN <<"cpu">> ELSE sent
                 [] f = "view" -> IF sent = <<>> /\ ViewsOf(mode) # <<>>
                                  THEN <<Head(ViewsOf(mode))>> ELSE sent
                 [] OTHER -> sent
  <1> DEFINE read == Read(line, ReadFlags, way)
             sent == IF f \notin DOMAIN line THEN NotGiven[f]
                     ELSE IF f \in Texts THEN TextOf(line, f, way) ELSE line[f]
             normal == Normalised(read)
  <1>1. read[f] = sent
    BY ListsComplete DEF Read
  <1>2. normal[f] = CASE f \in {"queryTimeoutMs", "buckets", "limit"} ->
                           IF read[f] <= 0 THEN NotGiven[f] ELSE read[f]
                      [] f = "channel" -> IF read[f] = <<>> THEN <<"cpu">> ELSE read[f]
                      [] OTHER -> read[f]
    BY DEF Normalised
  <1>3. DOMAIN normal = Flags /\ "view" \in Flags
    BY DEF Normalised, Flags, Texts
  <1>4. Parse(mode, line, way) = WithView(mode, normal)
    BY DEF Parse
  <1> HIDE DEF read, normal
  <1>5. WithView(mode, normal)[f] =
          IF f = "view" THEN IF normal["view"] = <<>> /\ ViewsOf(mode) # <<>>
                             THEN <<Head(ViewsOf(mode))>> ELSE normal["view"]
          ELSE normal[f]
    BY <1>3 DEF WithView
  <1>6. CASE f = "view"
    <2>1. normal[f] = sent
      BY <1>1, <1>2, <1>6
    <2>2. QED
      BY <1>4, <1>5, <1>6, <2>1
  <1>7. CASE f # "view"
    <2>1. Parse(mode, line, way)[f] = normal[f]
      BY <1>4, <1>5, <1>7
    <2>2. QED
      BY <1>1, <1>2, <1>7, <2>1
  <1>8. QED
    BY <1>6, <1>7

-----------------------------------------------------------------------------
(* Each argument arrives as the client gave it.                            *)

\* What the schemas say of the arguments that a mode looks at before it starts.
LEMMA Schemas ==
  ASSUME NEW t
  PROVE  /\ \A f \in {"limit", "buckets", "queryTimeoutMs", "callstackId"} : Schema(t, f) = Positive
         /\ \A f \in {"frame", "taskId", "connectionId"} : Schema(t, f) = Nonnegative
         /\ Schema(t, "view") = {<<t.view>>}
         /\ t.mode \in {"digest", "timeline", "callers", "callees", "compare"} =>
              \A v \in Schema(t, "channel") : \E c \in ChannelsOf(t.mode) : v = <<c>>
  <1>1. /\ \A f \in {"limit", "buckets", "queryTimeoutMs", "callstackId"} : Schema(t, f) = Positive
        /\ \A f \in {"frame", "taskId", "connectionId"} : Schema(t, f) = Nonnegative
        /\ Schema(t, "view") = {<<t.view>>}
    BY DEF Schema
  <1>2. Schema(t, "channel") =
          Words(CASE t.mode = "compare" -> {"cpu", "gpu", "region", "memory", "memalloc", "counter"}
                  [] t.mode \in {"callers", "callees"} -> {"cpu", "gpu"}
                  [] OTHER -> {"cpu", "gpu", "region"})
    BY DEF Schema
  <1>3. ASSUME t.mode \in {"digest", "timeline", "callers", "callees", "compare"}
        PROVE  Schema(t, "channel") = Words(ChannelsOf(t.mode))
    BY <1>2, <1>3 DEF ChannelsOf
  <1>4. QED
    BY <1>1, <1>3 DEF Words

\* A text without separators is read as it is.
LEMMA PlainToken ==
  ASSUME NEW text, ToSet(text) \cap Separators = {}, NEW quoted
  PROVE  Token(text, quoted) = text
  BY DEF Token, ToSet

\* One text or number, given or not.
LEMMA OneArrives ==
  ASSUME NEW t, Sound(t), NEW q \in QuestionsOf(t), NEW way, NEW f \in Flags,
         f \in (Texts \cap DOMAIN q) \ {"params"} => ToSet(q[f]) \cap Separators = {}
  PROVE  LET a == Parse(t.mode, [g \in Given(q) |-> q[g]], way)
         IN  /\ f \in Given(q) => a[f] = q[f]
             /\ f \notin Given(q) \cup {"channel", "view"} => a[f] = NotGiven[f]
             /\ f = "view" /\ f \notin Given(q) /\ ViewsOf(t.mode) = <<>> => a[f] = <<>>
  <1> DEFINE line == [g \in Given(q) |-> q[g]]
             sent == IF f \notin DOMAIN line THEN NotGiven[f]
                     ELSE IF f \in Texts THEN TextOf(line, f, way) ELSE line[f]
             a == Parse(t.mode, line, way)
  <1>1. a[f] = CASE f \in {"queryTimeoutMs", "buckets", "limit"} ->
                      IF sent <= 0 THEN NotGiven[f] ELSE sent
                 [] f = "channel" -> IF sent = <<>> THEN <<"cpu">> ELSE sent
                 [] f = "view" -> IF sent = <<>> /\ ViewsOf(t.mode) # <<>>
                                  THEN <<Head(ViewsOf(t.mode))>> ELSE sent
                 [] OTHER -> sent
    BY Reads
  <1>2. Given(q) \subseteq DOMAIN q /\ DOMAIN q \subseteq Flags
        /\ \A g \in DOMAIN q : q[g] \in Schema(t, g)
    BY QuestionShape DEF Given
  <1>3. {"queryTimeoutMs", "buckets", "limit"} \cap Texts = {} /\ {"channel", "view"} \subseteq Texts
    BY DEF Texts
  <1>4. CASE f \in Given(q)
    <2>1. f \in Texts => q[f] # <<>>
      BY <1>2, <1>4 DEF Given
    <2>2. sent = q[f]
      <3>1. CASE f \in Texts /\ f # "params"
        <4>1. Token(q[f], Quoted(q[f], way)) = q[f]
          BY <1>2, <1>4, <3>1, PlainToken
        <4>2. QED
          BY <1>4, <3>1, <4>1 DEF TextOf
      <3>2. CASE f \notin Texts \/ f = "params"
        BY <1>4, <3>2 DEF TextOf
      <3>3. QED
        BY <3>1, <3>2
    <2>3. f \in {"queryTimeoutMs", "buckets", "limit"} => q[f] \in Nat \ {0}
      BY <1>2, <1>4, Schemas, ToolsAssumption DEF ToolsAssumption
    <2> HIDE DEF sent, a, line
    <2>4. a[f] = q[f]
      BY <1>1, <1>3, <2>1, <2>2, <2>3
    <2>5. QED
      BY <1>4, <2>4 DEF a, line
  <1>5. CASE f \notin Given(q)
    <2>1. sent = NotGiven[f]
      BY <1>5
    <2>2. f \in {"queryTimeoutMs", "buckets", "limit"} => NotGiven[f] \in Nat \ {0}
      BY DEF NotGiven, Texts
    <2>3. NotGiven["view"] = <<>>
      BY DEF NotGiven, Texts, Flags
    <2> HIDE DEF sent, a, line
    <2>4. f \notin {"channel", "view"} => a[f] = NotGiven[f]
      BY <1>1, <2>1, <2>2
    <2>5. f = "view" /\ ViewsOf(t.mode) = <<>> => a[f] = <<>>
      BY <1>1, <2>1, <2>3
    <2>6. QED
      BY <1>5, <2>4, <2>5 DEF a, line
  <1>6. QED
    BY <1>4, <1>5

\* A tool's view is one of its mode's.
LEMMA ViewNamed ==
  ASSUME NEW t, Sound(t)
  PROVE  /\ t.mode \notin Umbrellas => ViewsOf(t.mode) = <<>>
         /\ t.mode \in Umbrellas => t.view # "" /\ t.view \in ToSet(ViewsOf(t.mode))
  <1>1. t.mode \notin Umbrellas => ViewsOf(t.mode) = <<>>
    BY DEF ViewsOf, Umbrellas
  <1>2. ASSUME NEW a, NEW b, NEW c PROVE ToSet(<<a, b, c>>) = {a, b, c}
    BY DEF ToSet
  <1>3. ASSUME NEW a, NEW b, NEW c, NEW d PROVE ToSet(<<a, b, c, d>>) = {a, b, c, d}
    BY DEF ToSet
  <1>4. CASE t.mode = "gpu"
    <2>1. ToSet(ViewsOf(t.mode)) = {"queues", "timeline", "fences"}
      BY <1>2, <1>4 DEF ViewsOf
    <2>2. QED
      BY <1>4, <2>1 DEF Sound, Umbrellas
  <1>5. CASE t.mode = "memory"
    <2>1. ToSet(ViewsOf(t.mode)) = {"trackers", "tags", "samples"}
      BY <1>2, <1>5 DEF ViewsOf
    <2>2. QED
      BY <1>5, <2>1 DEF Sound, Umbrellas
  <1>6. CASE t.mode = "allocations"
    <2>1. ToSet(ViewsOf(t.mode)) = {"timeline", "heaps", "query"}
      BY <1>2, <1>6 DEF ViewsOf
    <2>2. QED
      BY <1>6, <2>1 DEF Sound, Umbrellas
  <1>7. CASE t.mode = "asset"
    <2>1. ToSet(ViewsOf(t.mode)) = {"packages", "requests", "exports"}
      BY <1>2, <1>7 DEF ViewsOf
    <2>2. QED
      BY <1>7, <2>1 DEF Sound, Umbrellas
  <1>8. CASE t.mode = "net"
    <2>1. ToSet(ViewsOf(t.mode)) = {"instances", "connections", "packets", "objects"}
      BY <1>3, <1>8 DEF ViewsOf
    <2>2. QED
      BY <1>8, <2>1 DEF Sound, Umbrellas
  <1>9. QED
    BY <1>1, <1>4, <1>5, <1>6, <1>7, <1>8 DEF Umbrellas

\* What arrives is what the mode requires.
LEMMA Understood ==
  ASSUME NEW t, Sound(t), NEW q \in QuestionsOf(t), NEW a,
         \A f \in Given(q) : a[f] = q[f],
         "view" \notin Given(q) /\ ViewsOf(t.mode) = <<>> => a["view"] = <<>>,
         \A f \in t.needs \cap Texts : q[f] # <<>>
  PROVE  Valid(t.mode, a)
  <1>2. a["view"] = IF t.view = "" THEN <<>> ELSE <<t.view>>
    <2>1. CASE t.view = ""
      <3>1. "view" \notin Given(q)
        BY <2>1, QuestionShape DEF Given
      <3>2. ViewsOf(t.mode) = <<>>
        BY <2>1, ViewNamed
      <3>3. QED
        BY <2>1, <3>1, <3>2
    <2>2. CASE t.view # ""
      <3>1. q["view"] = <<t.view>> /\ "view" \in DOMAIN q
        BY <2>2, QuestionShape, Schemas
      <3>2. "view" \in Given(q)
        BY <3>1 DEF Given
      <3>3. QED
        BY <2>2, <3>1, <3>2
    <2>3. QED
      BY <2>1, <2>2
  <1> DEFINE Arrives(f) == /\ a[f] = q[f] /\ q[f] \in Schema(t, f)
                           /\ (f \in Texts => a[f] # <<>>)
  <1>3. ASSUME NEW f \in t.needs PROVE Arrives(f)
    <2>1. f \in DOMAIN q /\ q[f] \in Schema(t, f)
      BY QuestionShape
    <2>2. f \in Texts => q[f] # <<>>
      OBVIOUS
    <2>3. f \in Given(q)
      BY <2>1, <2>2 DEF Given
    <2>4. QED
      BY <2>1, <2>2, <2>3
  <1> HIDE DEF Arrives
  <1>4. {"file2", "event", "intent", "tag", "rule"} \subseteq Texts
    BY DEF Texts
  <1>5. /\ t.mode = "compare" => a["file2"] # <<>>
        /\ t.mode \in {"timeline", "callers", "callees"} => a["event"] # <<>>
        /\ t.mode = "query" => a["intent"] # <<>>
    <2>1. t.mode = "compare" => Arrives("file2")
      BY <1>3 DEF Sound
    <2>2. t.mode \in {"timeline", "callers", "callees"} => Arrives("event")
      BY <1>3 DEF Sound
    <2>3. t.mode = "query" => Arrives("intent")
      BY <1>3 DEF Sound
    <2>4. QED
      BY <1>4, <2>1, <2>2, <2>3 DEF Arrives
  <1>6. /\ t.mode = "frame" => a["frame"] >= 0
        /\ t.mode = "callstack" => a["callstackId"] # 0
        /\ t.mode = "task_drill" => a["taskId"] # NotGiven["taskId"]
    <2>1. NotGiven["taskId"] = -1
      BY DEF NotGiven, Flags, Texts, Numbers
    <2>2. t.mode = "frame" => Arrives("frame")
      BY <1>3 DEF Sound
    <2>3. t.mode = "callstack" => Arrives("callstackId")
      BY <1>3 DEF Sound
    <2>4. t.mode = "task_drill" => Arrives("taskId")
      BY <1>3 DEF Sound
    <2>5. /\ Schema(t, "frame") \subseteq Nat /\ Schema(t, "taskId") \subseteq Nat
          /\ Schema(t, "callstackId") \subseteq Nat \ {0}
      BY Schemas, ToolsAssumption DEF ToolsAssumption
    <2>6. QED
      BY <2>1, <2>2, <2>3, <2>4, <2>5 DEF Arrives
  <1>7. ViewsOf(t.mode) # <<>> => \E v \in ToSet(ViewsOf(t.mode)) : a["view"] = <<v>>
    BY <1>2, ViewNamed
  <1>8. ASSUME NEW v, a["view"] = <<v>> PROVE t.view = v
    <2>1. t.view # ""
      <3>1. <<>> # <<v>>
        OBVIOUS
      <3>2. QED
        BY <1>2, <1>8, <3>1
    <2>2. <<t.view>> = <<v>>
      BY <1>2, <1>8, <2>1
    <2>3. <<t.view>>[1] = <<v>>[1]
      BY <2>2
    <2>4. QED
      BY <2>3
  <1>9. /\ a["view"] = <<"samples">> => a["tag"] # <<>>
        /\ a["view"] = <<"query">> => a["rule"] # <<>>
    <2>1. a["view"] = <<"samples">> => t.view = "samples"
      BY <1>8
    <2>2. a["view"] = <<"query">> => t.view = "query"
      BY <1>8
    <2>3. t.view = "samples" => Arrives("tag")
      BY <1>3 DEF Sound
    <2>4. t.view = "query" => Arrives("rule")
      BY <1>3 DEF Sound
    <2>5. QED
      BY <1>4, <2>1, <2>2, <2>3, <2>4 DEF Arrives
  <1>10. a["view"] = <<"packets">> => a["connectionId"] >= 0
    <2>1. a["view"] = <<"packets">> => t.view = "packets"
      BY <1>8
    <2>2. t.view = "packets" => Arrives("connectionId")
      BY <1>3 DEF Sound
    <2>3. Schema(t, "connectionId") \subseteq Nat
      BY Schemas, ToolsAssumption DEF ToolsAssumption
    <2>4. QED
      BY <2>1, <2>2, <2>3 DEF Arrives
  <1>11. ASSUME t.mode \in {"digest", "timeline", "callers", "callees", "compare"}
         PROVE  \E c \in ChannelsOf(t.mode) : a["channel"] = <<c>>
    <2>1. Arrives("channel")
      BY <1>3, <1>11 DEF Sound
    <2>2. a["channel"] \in Schema(t, "channel")
      BY <2>1 DEF Arrives
    <2>3. \A v \in Schema(t, "channel") : \E c \in ChannelsOf(t.mode) : v = <<c>>
      BY <1>11, Schemas
    <2>4. QED
      BY <2>2, <2>3
  <1>12. QED
    BY <1>5, <1>6, <1>7, <1>9, <1>10, <1>11 DEF Valid

-----------------------------------------------------------------------------
(* Calls.                                                                  *)

\* Before a child is started the tool and its arguments are what was asked.
CallInv ==
  child = "none" =>
    /\ tool \in DOMAIN AllTools /\ question \in QuestionsOf(AllTools[tool])
    /\ route \in {"daemon", "one-shot"}

\* Nothing starts a child but the run that takes the arguments with it.
LEMMA CallInductive == Spec => []CallInv
  <1>1. Init => CallInv
    BY DEF Init, CallInv, Askable
  <1>2. CallInv /\ [Next]_vars => CallInv'
    <2> SUFFICES ASSUME CallInv, [Next]_vars PROVE CallInv'
      OBVIOUS
    <2>1. CASE RunBinary
      <3>1. child' \in {"running", "failed"}
        BY <2>1 DEF RunBinary, Spawn
      <3>2. QED
        BY <3>1 DEF CallInv
    <2>2. CASE ViaDaemon \/ DaemonFails \/ NoBinary \/ UNCHANGED vars
      <3>1. UNCHANGED <<callVars, child>>
        BY <2>2 DEF ViaDaemon, DaemonFails, NoBinary, NotExecutable, vars, oneShotVars
      <3>2. QED
        BY <3>1 DEF CallInv, callVars
    <2>3. CASE OfTheRun
      <3>1. child' = "none" => child = "none"
        BY <2>3 DEF OfTheRun, SpawnError, Data, TimerFires, Close, Write, ExitOk, ExitFails, Dies
      <3>2. UNCHANGED callVars
        BY <2>3 DEF OfTheRun
      <3>3. QED
        BY <3>1, <3>2 DEF CallInv, callVars
    <2>4. QED
      BY <2>1, <2>2, <2>3 DEF Next
  <1>3. QED
    BY <1>1, <1>2, PTL DEF Spec

\* Every call of every tool is understood, over a daemon and by a one-shot run, and
\* each mode gets each argument as the client gave it, whatever texts without
\* separators, numbers and ranges are given, and however many.
THEOREM ArgumentsArrive == Spec => []AsAsked
  <1>1. CallInv => AsAsked
    <2> SUFFICES ASSUME CallInv, child = "none", Plain
                 PROVE  /\ Valid(Mode, Arrived)
                        /\ \A f \in Given(question) : Arrived[f] = question[f]
                        /\ \A f \in Flags \ (Given(question) \cup {"channel", "view"}) :
                             Arrived[f] = NotGiven[f]
      BY DEF AsAsked
    <2>1. PICK t : t = AllTools[tool]
      OBVIOUS
    <2>2. Sound(t) /\ question \in QuestionsOf(t) /\ Mode = t.mode
      BY <2>1, AllSound DEF CallInv, Mode
    <2>3. DOMAIN question \subseteq Flags
      BY <2>2, QuestionShape
    <2>4. Line = [f \in Given(question) |-> question[f]]
      BY <2>3, SentAlike DEF Line
    <2>5. Arrived = Parse(t.mode, [f \in Given(question) |-> question[f]], route)
      BY <2>2, <2>4 DEF Arrived
    <2>6. ASSUME NEW f \in Flags
          PROVE  /\ f \in Given(question) => Arrived[f] = question[f]
                 /\ f \notin Given(question) \cup {"channel", "view"} => Arrived[f] = NotGiven[f]
                 /\ (f = "view" /\ f \notin Given(question) /\ ViewsOf(t.mode) = <<>>)
                      => Arrived[f] = <<>>
      <3>1. f \in (Texts \cap DOMAIN question) \ {"params"} => ToSet(question[f]) \cap Separators = {}
        BY DEF Plain
      <3>2. QED
        BY <2>2, <2>5, <3>1, OneArrives
    <2>7. Given(question) \subseteq Flags /\ "view" \in Flags
      BY <2>3 DEF Given, Flags, Texts
    <2>8. Valid(t.mode, Arrived)
      <3>1. \A f \in t.needs \cap Texts : question[f] # <<>>
        BY <2>1 DEF Plain
      <3>2. QED
        BY <2>2, <2>6, <2>7, <3>1, Understood
    <2>9. QED
      BY <2>2, <2>6, <2>7, <2>8
  <1>2. QED
    BY <1>1, CallInductive, PTL

\* Two questions of a tool that share a cache entry are parsed alike, but for the
\* file that they compare with.
THEOREM VariantsDistinguish == Spec => []VariantsTellApart
  <1>1. CallInv => VariantsTellApart
    <2> SUFFICES ASSUME CallInv, child = "none", AllTools[tool].variant # NotCached,
                        NEW other \in Askable[tool],
                        Variant(AllTools[tool], other) = Variant(AllTools[tool], question),
                        NEW f \in Flags \ {"file2"}
                 PROVE  Parse(Mode, daemonLine(other), "daemon")[f]
                          = Parse(Mode, daemonLine(question), "daemon")[f]
      BY DEF VariantsTellApart
    <2>1. PICK t : t = AllTools[tool]
      OBVIOUS
    <2>2. /\ Sound(t) /\ question \in QuestionsOf(t) /\ other \in QuestionsOf(t) /\ Mode = t.mode
          /\ t.variant # NotCached /\ Variant(t, other) = Variant(t, question)
      BY <2>1, AllSound DEF CallInv, Mode, Askable
    <2>3. /\ DOMAIN question \subseteq Flags /\ DOMAIN other \subseteq Flags
          /\ DOMAIN question \subseteq t.needs \cup ViewFlag(t) \cup t.may
          /\ DOMAIN other \subseteq t.needs \cup ViewFlag(t) \cup t.may
          /\ "view" \in DOMAIN question <=> t.view # ""
          /\ "view" \in DOMAIN other <=> t.view # ""
          /\ "view" \in DOMAIN question => question["view"] \in Schema(t, "view")
          /\ "view" \in DOMAIN other => other["view"] \in Schema(t, "view")
      BY <2>2, QuestionShape
    <2>4. /\ f \in DOMAIN question <=> f \in DOMAIN other
          /\ f \in DOMAIN question => question[f] = other[f]
      <3>1. CASE f = "view"
        <4>1. Schema(t, "view") = {<<t.view>>}
          BY Schemas
        <4>2. QED
          BY <2>3, <3>1, <4>1
      <3>2. CASE f \in t.variant
        <4>1. DOMAIN Variant(t, question) = t.variant \cap DOMAIN question
              /\ DOMAIN Variant(t, other) = t.variant \cap DOMAIN other
          BY DEF Variant
        <4>2. f \in DOMAIN question <=> f \in DOMAIN other
          BY <2>2, <3>2, <4>1
        <4>3. /\ f \in DOMAIN question => Variant(t, question)[f] = question[f]
              /\ f \in DOMAIN other => Variant(t, other)[f] = other[f]
          BY <3>2 DEF Variant
        <4>4. QED
          BY <2>2, <4>2, <4>3
      <3>3. CASE f # "view" /\ f \notin t.variant
        <4>1. f \notin t.needs \cup ViewFlag(t) \cup t.may
          BY <2>2, <3>3 DEF Sound, ViewFlag
        <4>2. QED
          BY <2>3, <4>1
      <3>4. QED
        BY <3>1, <3>2, <3>3
    <2>5. f \in Given(question) <=> f \in Given(other)
      BY <2>4 DEF Given
    <2>6. f \in Given(question) => f \in DOMAIN question
      BY DEF Given
    <2>7. PICK a, b : a = daemonLine(question) /\ b = daemonLine(other)
      OBVIOUS
    <2>8. /\ f \in DOMAIN a <=> f \in DOMAIN b
          /\ f \in DOMAIN a => a[f] = b[f]
      BY <2>3, <2>4, <2>5, <2>6, <2>7, SentAlike
    <2>9. f \in Flags /\ (f \in DOMAIN a => TextOf(a, f, "daemon") = TextOf(b, f, "daemon"))
      BY <2>8 DEF TextOf
    <2> DEFINE Sent1(line) == IF f \notin DOMAIN line THEN NotGiven[f]
                              ELSE IF f \in Texts THEN TextOf(line, f, "daemon") ELSE line[f]
               Value(sent) == CASE f \in {"queryTimeoutMs", "buckets", "limit"} ->
                                     IF sent <= 0 THEN NotGiven[f] ELSE sent
                                [] f = "channel" -> IF sent = <<>> THEN <<"cpu">> ELSE sent
                                [] f = "view" -> IF sent = <<>> /\ ViewsOf(t.mode) # <<>>
                                                 THEN <<Head(ViewsOf(t.mode))>> ELSE sent
                                [] OTHER -> sent
    <2>10. Parse(t.mode, a, "daemon")[f] = Parse(t.mode, b, "daemon")[f]
      <3>1. Sent1(a) = Sent1(b)
        BY <2>8, <2>9
      <3>2. \A line : Parse(t.mode, line, "daemon")[f] = Value(Sent1(line))
        <4>1. SUFFICES ASSUME NEW line
                       PROVE  Parse(t.mode, line, "daemon")[f] = Value(Sent1(line))
          OBVIOUS
        <4>2. QED
          BY <2>9, Reads
      <3> HIDE DEF Sent1, Value
      <3>3. QED
        BY <3>1, <3>2
    <2>11. QED
      BY <2>2, <2>7, <2>10
  <1>2. QED
    BY <1>1, CallInductive, PTL

-----------------------------------------------------------------------------
(* The result of a one-shot run.                                           *)

\* What is reported is a result only if nothing went wrong.
LEMMA Verdicts ==
  ASSUME NEW output, killedFor \subseteq {"timeout", "overflow"}
  PROVE  /\ Verdict(output) = "result" <=>
              (killedFor = {} /\ code = 0 /\ Found(output) # Nothing)
         /\ Verdict(output) \notin {"pending", "not started"}
  BY DEF Verdict

\* The child: before it is started, while it runs, and what its exit says.
ChildInv ==
  /\ route = "daemon" => child = "none"
  /\ whole => accepted
  /\ child \in {"none", "failed", "running"} => code = 0
  /\ child \in {"none", "failed"} => ~whole
  /\ promise = "not started" => child = "closed"
  /\ child \in {"exited", "closed"} /\ code = 0 /\ promise # "not started" => whole
  /\ child \in {"none", "failed", "closed"} => received = written
  /\ child = "closed" => ~timer /\ promise # "pending"

\* The pipe: a child is killed for what has arrived, and never late.
PipeInv ==
  /\ written \in Nat /\ received \in 0 .. written
  /\ killedFor \subseteq {"timeout", "overflow"}
  /\ "overflow" \in killedFor <=> received > MaxStdout

\* The promise: what was made of the output when the pipe was closed.
ClosedInv ==
  child = "closed" /\ promise # "not started" =>
    /\ code = 0 => printed \in Outputs
    /\ promise = "result" <=> (killedFor = {} /\ code = 0 /\ Found(Output(printed)) # Nothing)
    /\ promise = "result" => value = Found(Output(printed))

\* The pipe in every run.
LEMMA PipeInductive == Spec => []PipeInv
  <1> USE OneShotAssumption DEF OneShotAssumption, PipeInv
  <1>1. Init => PipeInv
    BY DEF Init, OneShotInit
  <1>2. PipeInv /\ [Next]_vars => PipeInv'
    <2> SUFFICES ASSUME PipeInv, [Next]_vars PROVE PipeInv'
      OBVIOUS
    <2>1. CASE Data
      <3>1. /\ received < written /\ received' = received + 1 /\ written' = written
            /\ killedFor' = killedFor \cup (IF received' > MaxStdout THEN {"overflow"} ELSE {})
        BY <2>1 DEF Data, TooMuch
      <3>2. QED
        BY <3>1
    <2>2. CASE TimerFires
      <3>1. killedFor' = killedFor \cup {"timeout"} /\ received' = received /\ written' = written
        BY <2>2 DEF TimerFires
      <3>2. QED
        BY <3>1
    <2>3. CASE Write
      <3>1. written' = written + 1 /\ UNCHANGED <<received, killedFor>>
        BY <2>3 DEF Write
      <3>2. QED
        BY <3>1
    <2>4. CASE ViaDaemon \/ DaemonFails \/ RunBinary \/ NoBinary \/ SpawnError \/ Close
               \/ ExitOk \/ ExitFails \/ Dies \/ UNCHANGED vars
      <3>1. UNCHANGED <<written, received, killedFor>>
        BY <2>4 DEF ViaDaemon, DaemonFails, RunBinary, Spawn, NoBinary, NotExecutable, SpawnError,
                    Close, ExitOk, ExitFails, Dies, vars, oneShotVars
      <3>2. QED
        BY <3>1
    <2>5. QED
      BY <2>1, <2>2, <2>3, <2>4 DEF Next, OfTheRun
  <1>3. QED
    BY <1>1, <1>2, PTL DEF Spec

\* A child that is not killed for what arrived has kept to the limit.
LEMMA PipeSays ==
  PipeInv => /\ "overflow" \notin killedFor => received <= MaxStdout
             /\ "overflow" \in killedFor => received > MaxStdout
  <1> SUFFICES ASSUME PipeInv PROVE "overflow" \notin killedFor => received <= MaxStdout
    BY DEF PipeInv
  <1>1. received \in Int /\ ("overflow" \in killedFor <=> received > MaxStdout)
    BY DEF PipeInv
  <1>2. MaxStdout \in Int
    BY OneShotAssumption DEF OneShotAssumption
  <1>3. QED
    BY <1>1, <1>2

\* The child in every run.
LEMMA ChildInductive == Spec => []ChildInv
  <1>1. Init => ChildInv
    BY DEF Init, OneShotInit, ChildInv
  <1>2. PipeInv /\ ChildInv /\ [Next]_vars => ChildInv'
    <2> SUFFICES ASSUME PipeInv, ChildInv, [Next]_vars PROVE ChildInv'
      OBVIOUS
    <2>1. CASE ViaDaemon \/ DaemonFails
      <3>1. /\ route = "daemon" /\ promise' \in {"result", "refused", "daemon"}
            /\ UNCHANGED <<route, child, accepted, whole, code, written, received, timer>>
        BY <2>1 DEF ViaDaemon, DaemonFails, Settle, callVars
      <3>2. child = "none"
        BY <3>1 DEF ChildInv
      <3>3. QED
        BY <3>1, <3>2, Zenon DEF ChildInv
    <2>2. CASE RunBinary
      <3>1. /\ child' \in {"running", "failed"} /\ route' = "sent" /\ child = "none"
            /\ promise = "pending" /\ UNCHANGED <<whole, code, written, received, promise>>
        BY <2>2 DEF RunBinary, Spawn
      <3>2. ~whole /\ code = 0 /\ received = written
        BY <3>1, Zenon DEF ChildInv
      <3>3. QED
        BY <3>1, <3>2, Zenon DEF ChildInv
    <2>3. CASE NoBinary
      <3>1. /\ child = "none" /\ promise' = "not executable"
            /\ UNCHANGED <<route, child, accepted, whole, code, written, received, timer>>
        BY <2>3 DEF NoBinary, NotExecutable, Settle, callVars
      <3>2. QED
        BY <3>1, Zenon DEF ChildInv
    <2>4. CASE SpawnError /\ UNCHANGED callVars
      <3>1. /\ child = "failed" /\ child' = "closed" /\ timer' = FALSE /\ promise' = "not started"
            /\ UNCHANGED <<route, accepted, whole, code, written, received>>
        BY <2>4 DEF SpawnError, Settle, callVars
      <3>2. QED
        BY <3>1, Zenon DEF ChildInv
    <2>5. CASE Data /\ UNCHANGED callVars
      <3>1. /\ received < written
            /\ UNCHANGED <<route, child, accepted, whole, code, written, timer, promise>>
        BY <2>5 DEF Data, callVars
      <3>2. received # written
        BY <3>1 DEF PipeInv
      <3>3. QED
        BY <3>1, <3>2, Zenon DEF ChildInv
    <2>6. CASE TimerFires /\ UNCHANGED callVars
      <3>1. /\ timer' = FALSE
            /\ UNCHANGED <<route, child, accepted, whole, code, written, received, promise>>
        BY <2>6 DEF TimerFires, callVars
      <3>2. QED
        BY <3>1, Zenon DEF ChildInv
    <2>7. CASE Close /\ UNCHANGED callVars
      <3>1. /\ child = "exited" /\ received = written /\ child' = "closed" /\ timer' = FALSE
            /\ UNCHANGED <<route, accepted, whole, code, written, received>>
            /\ promise' = Verdict(Output(printed')) /\ killedFor' = killedFor
        BY <2>7 DEF Close, callVars
      <3>2. promise' \notin {"pending", "not started"}
        BY <3>1 DEF Verdict
      <3>3. promise # "not started"
        BY <3>1 DEF ChildInv
      <3>4. QED
        BY <3>1, <3>2, <3>3, Zenon DEF ChildInv
    <2>8. CASE (Write \/ ExitOk \/ ExitFails \/ Dies) /\ UNCHANGED callVars
      <3>1. /\ child = "running" /\ UNCHANGED <<route, received, timer, promise, accepted>>
            /\ whole' => accepted
            /\ \/ child' = "running" /\ code' = code
               \/ child' = "exited" /\ (code' = 0 => whole')
        <4>1. CASE Write /\ UNCHANGED callVars
          BY <4>1 DEF Write, callVars
        <4>2. CASE ExitOk /\ UNCHANGED callVars
          BY <4>2, Zenon DEF ExitOk, callVars, ChildInv
        <4>3. CASE (ExitFails \/ Dies) /\ UNCHANGED callVars
          <5>1. /\ child = "running" /\ child' = "exited" /\ code' \in {1, -1} /\ whole' = whole
                /\ UNCHANGED <<route, received, timer, promise, accepted>>
            BY <4>3 DEF ExitFails, Dies, callVars
          <5>2. code' # 0
            BY <5>1
          <5>3. QED
            BY <5>1, <5>2, Zenon DEF ChildInv
        <4>4. QED
          BY <2>8, <4>1, <4>2, <4>3
      <3>2. QED
        BY <3>1, Zenon DEF ChildInv
    <2>9. CASE UNCHANGED vars
      BY <2>9, Zenon DEF vars, callVars, oneShotVars, ChildInv
    <2>10. QED
      BY <2>1, <2>2, <2>3, <2>4, <2>5, <2>6, <2>7, <2>8, <2>9 DEF Next, OfTheRun
  <1>3. QED
    BY <1>1, <1>2, PipeInductive, PTL DEF Spec

\* The promise in every run.
LEMMA ClosedInductive == Spec => []ClosedInv
  <1>1. Init => ClosedInv
    BY DEF Init, OneShotInit, ClosedInv
  <1>2. PipeInv /\ ChildInv /\ ClosedInv /\ [Next]_vars => ClosedInv'
    <2> SUFFICES ASSUME PipeInv, ChildInv, ClosedInv, [Next]_vars PROVE ClosedInv'
      OBVIOUS
    <2>1. CASE Close
      <3>1. /\ UNCHANGED <<code, killedFor>>
            /\ code = 0 => printed' \in Outputs
            /\ promise' = Verdict(Output(printed'))
            /\ promise' = "result" => value' = Found(Output(printed'))
        BY <2>1 DEF Close
      <3>2. PICK p : p = printed'
        OBVIOUS
      <3>3. promise' = "result" <=> (killedFor = {} /\ code = 0 /\ Found(Output(p)) # Nothing)
        BY <3>1, <3>2, Verdicts DEF PipeInv
      <3>4. QED
        BY <3>1, <3>2, <3>3 DEF ClosedInv
    <2>2. CASE child' # "closed" \/ promise' = "not started"
      BY <2>2 DEF ClosedInv
    <2>3. CASE UNCHANGED <<child, code, killedFor, promise, printed, value>>
      BY <2>3 DEF ClosedInv
    <2>4. CASE ViaDaemon \/ DaemonFails \/ RunBinary \/ NoBinary \/ SpawnError \/ Data \/ TimerFires
               \/ Write \/ ExitOk \/ ExitFails \/ Dies
      <3>1. CASE ViaDaemon \/ DaemonFails
        <4>1. route = "daemon" /\ child' = child
          BY <3>1 DEF ViaDaemon, DaemonFails
        <4>2. child = "none"
          BY <4>1, Zenon DEF ChildInv
        <4>3. QED
          BY <2>2, <4>1, <4>2
      <3>2. CASE RunBinary \/ NoBinary \/ SpawnError \/ Write \/ ExitOk \/ ExitFails \/ Dies
        BY <2>2, <3>2 DEF RunBinary, Spawn, NoBinary, NotExecutable, SpawnError, Settle, Write,
                          ExitOk, ExitFails, Dies
      <3>3. CASE Data
        <4>1. received < written /\ child' = child
          BY <3>3 DEF Data
        <4>2. received # written
          BY <4>1 DEF PipeInv
        <4>3. child # "closed"
          BY <4>2, Zenon DEF ChildInv
        <4>4. QED
          BY <2>2, <4>1, <4>3
      <3>4. CASE TimerFires
        <4>1. timer /\ child' = child
          BY <3>4 DEF TimerFires
        <4>2. child # "closed"
          BY <4>1, Zenon DEF ChildInv
        <4>3. QED
          BY <2>2, <4>1, <4>2
      <3>5. QED
        BY <2>4, <3>1, <3>2, <3>3, <3>4
    <2>5. CASE UNCHANGED vars
      BY <2>3, <2>5 DEF vars, oneShotVars
    <2>6. QED
      BY <2>1, <2>4, <2>5 DEF Next, OfTheRun
  <1>3. QED
    BY <1>1, <1>2, PipeInductive, ChildInductive, PTL DEF Spec

\* If the outputs are read, a one-shot run gives a result exactly when its child
\* ended well, in time, and printed no more than it may, and the result is the
\* object it printed, for any limits and however the run goes.
THEOREM ResultsAreOutputs == ASSUME OutputsRead PROVE Spec => []ResultIsOutput
  <1>1. ChildInv /\ PipeInv /\ ClosedInv => ResultIsOutput
    <2> SUFFICES ASSUME ChildInv, PipeInv, ClosedInv, child = "closed", promise # "not started"
                 PROVE  LET clean == code = 0 /\ killedFor = {} IN
                        /\ clean => accepted /\ whole /\ received = written /\ written <= MaxStdout
                        /\ "overflow" \in killedFor => written > MaxStdout
                        /\ promise = "result" => clean /\ value = printed.value
                        /\ clean /\ (~Escapes(printed.value) \/ printed.before \o printed.after = <<>>)
                             => promise = "result"
      BY DEF ResultIsOutput
    <2>1. received = written /\ (code = 0 => whole /\ accepted)
      BY Zenon DEF ChildInv
    <2>2. /\ "overflow" \notin killedFor => received <= MaxStdout
          /\ "overflow" \in killedFor => received > MaxStdout
      BY PipeSays
    <2>3. code = 0 => /\ printed.value # Nothing
                      /\ Found(Output(printed)) \in {printed.value, Nothing}
                      /\ (~Escapes(printed.value) \/ printed.before \o printed.after = <<>>)
                           => Found(Output(printed)) = printed.value
      BY OutputsRead DEF OutputsRead, ClosedInv
    <2>4. /\ promise = "result" <=> (killedFor = {} /\ code = 0 /\ Found(Output(printed)) # Nothing)
          /\ promise = "result" => value = Found(Output(printed))
      BY DEF ClosedInv
    <2>5. code = 0 /\ killedFor = {} => accepted /\ whole /\ received = written /\ written <= MaxStdout
      BY <2>1, <2>2
    <2>6. "overflow" \in killedFor => written > MaxStdout
      BY <2>1, <2>2
    <2>7. promise = "result" => code = 0 /\ killedFor = {} /\ value = printed.value
      BY <2>3, <2>4
    <2>8. code = 0 /\ killedFor = {} /\ (~Escapes(printed.value) \/ printed.before \o printed.after = <<>>)
            => promise = "result"
      BY <2>3, <2>4
    <2>9. QED
      BY <2>5, <2>6, <2>7, <2>8, Zenon
  <1>2. QED
    BY <1>1, PipeInductive, ChildInductive, ClosedInductive, PTL
=============================================================================
