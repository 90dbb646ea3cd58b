------------------------------- MODULE Tools -------------------------------
(***************************************************************************)
(* The tools a client can call (server.ts): what their schemas let it ask  *)
(* (schemas.ts), the question each makes of its arguments, and what the    *)
(* result is cached under (tools.ts).  The tools about daemons themselves, *)
(* trace_unload and trace_status, are operations of DaemonRegistry.        *)
(***************************************************************************)
EXTENDS Arguments, FiniteSets

CONSTANTS SomeTexts,    \* texts a client may give
          SomeRanges,   \* frame ranges
          Positive,     \* numbers, where the schema wants a positive one
          Nonnegative,  \* numbers, where zero will do
          MostGiven     \* bound: optional arguments given in one call

ASSUME ToolsAssumption == Positive \subseteq Nat \ {0} /\ Nonnegative \subseteq Nat

NoArguments == [f \in {} |-> <<>>]

\* A tool: the mode and view it asks for, the arguments it always has (the
\* schema requires them or gives them a default), those it may have, and those
\* the variant of its cache key is made from.
Tool(mode, view, needs, may, variant) ==
  [mode |-> mode, view |-> view, needs |-> needs, may |-> may, variant |-> variant]

\* A tool whose results are not cached.
NotCached == {"not cached"}

MutVariantWithoutRange ==
  Tool("timeline", "", {"channel", "event"}, {"frameRange"}, {"channel", "event"})
Timeline ==
  Tool("timeline", "", {"channel", "event"}, {"frameRange"}, {"channel", "event", "frameRange"})

Timings ==
  [trace_overview    |-> Tool("overview", "", {}, {"prefix", "limit"}, {"prefix", "limit"}),
   trace_digest      |-> Tool("digest", "", {"channel"}, {"prefix", "limit"},
                              {"channel", "prefix", "limit"}),
   trace_timeline    |-> Timeline,
   trace_frames      |-> Tool("frames", "", {}, {"limit", "frameRange"}, {"limit", "frameRange"}),
   trace_frame       |-> Tool("frame", "", {"frame"}, {"limit"}, {"frame", "limit"}),
   trace_callers     |-> Tool("callers", "", {"channel", "event"}, {"limit"},
                              {"channel", "event", "limit"}),
   trace_callees     |-> Tool("callees", "", {"channel", "event"}, {"limit"},
                              {"channel", "event", "limit"}),
   trace_cpu_threads |-> Tool("threads", "", {}, {"limit"}, {"limit"}),
   trace_compare     |-> Tool("compare", "", {"file2", "channel"}, {"prefix", "threshold", "limit"},
                              {"channel", "prefix", "threshold", "limit"})]

Channels ==
  [trace_channels          |-> Tool("channels", "", {}, {}, {}),
   trace_gpu_queues        |-> Tool("gpu", "queues", {}, {}, {}),
   trace_gpu_fences        |-> Tool("gpu", "fences", {}, {"queue", "limit"}, {"queue", "limit"}),
   trace_counter_catalogue |-> Tool("counters", "", {}, {}, {}),
   trace_counter_series    |-> Tool("counters", "", {"counter"}, {"buckets"}, {"counter", "buckets"}),
   trace_bookmark_list     |-> Tool("bookmarks", "", {}, {"limit"}, {"limit"}),
   trace_region_list       |-> Tool("regions", "", {}, {"category", "limit"}, {"category", "limit"}),
   trace_log_messages      |-> Tool("logs", "", {}, {"verbosity", "category", "grep", "limit"},
                                    {"verbosity", "category", "grep", "limit"})]

Memory ==
  [trace_memory_trackers   |-> Tool("memory", "trackers", {}, {}, {}),
   trace_memory_tags       |-> Tool("memory", "tags", {}, {"tracker", "tag"}, {"tracker", "tag"}),
   trace_memory_samples    |-> Tool("memory", "samples", {"tag"}, {"tracker", "buckets"},
                                    {"tracker", "tag", "buckets"}),
   trace_memalloc_timeline |-> Tool("allocations", "timeline", {}, {"buckets"}, {"buckets"}),
   trace_memalloc_heaps    |-> Tool("allocations", "heaps", {}, {}, {}),
   trace_memalloc_query    |-> Tool("allocations", "query", {"rule"},
                                    {"timeA", "timeB", "limit", "queryTimeoutMs"}, NotCached)]

Windows ==
  [trace_callstack      |-> Tool("callstack", "", {"callstackId"}, {}, NotCached),
   trace_modules        |-> Tool("modules", "", {}, {}, {}),
   trace_task_list      |-> Tool("task_list", "", {}, {"state", "frameRange", "limit"},
                                 {"state", "frameRange", "limit"}),
   trace_task_drill     |-> Tool("task_drill", "", {"taskId"}, {}, NotCached),
   trace_asset_packages |-> Tool("asset", "packages", {}, {"frameRange", "limit"},
                                 {"frameRange", "limit"}),
   trace_asset_requests |-> Tool("asset", "requests", {}, {"frameRange", "limit"},
                                 {"frameRange", "limit"}),
   trace_asset_exports  |-> Tool("asset", "exports", {}, {"frameRange", "limit"},
                                 {"frameRange", "limit"}),
   trace_net_instances  |-> Tool("net", "instances", {}, {}, {}),
   trace_net_connections |-> Tool("net", "connections", {}, {"gameInstanceId"}, {"gameInstanceId"}),
   trace_net_packets    |-> Tool("net", "packets", {"connectionId"},
                                 {"direction", "packetStart", "packetEnd", "limit"}, NotCached),
   trace_net_objects    |-> Tool("net", "objects", {}, {"gameInstanceId", "limit"},
                                 {"gameInstanceId", "limit"}),
   trace_query          |-> Tool("query", "", {"intent"}, {"params"}, NotCached)]

AllTools ==
  [name \in DOMAIN Timings \cup DOMAIN Channels \cup DOMAIN Memory \cup DOMAIN Windows |->
     CASE name \in DOMAIN Timings  -> Timings[name]
       [] name \in DOMAIN Channels -> Channels[name]
       [] name \in DOMAIN Memory   -> Memory[name]
       [] OTHER                    -> Windows[name]]

-----------------------------------------------------------------------------
(* What may be asked.                                                      *)

Words(strings) == {<<w>> : w \in strings}

\* The values the schema of tool t allows for a flag.
Schema(t, flag) ==
  CASE flag = "view" -> {<<t.view>>}
    [] flag = "channel" ->
         Words(CASE t.mode = "compare" -> {"cpu", "gpu", "region", "memory", "memalloc", "counter"}
                 [] t.mode \in {"callers", "callees"} -> {"cpu", "gpu"}
                 [] OTHER -> {"cpu", "gpu", "region"})
    [] flag = "verbosity" -> Words({"fatal", "error", "warning", "warn", "display", "log",
                                    "verbose", "all"})
    [] flag = "rule"      -> Words({"aAf", "afA", "Aaf", "aAfB"})
    [] flag = "state"     -> Words({"Alive", "Launched", "Active", "WaitingForPrerequisites",
                                    "Queued", "Executing", "WaitingForNested", "Completed"})
    [] flag = "direction" -> Words({"outgoing", "incoming"})
    [] flag = "params"    -> {<<"{", "a", ",", " ", "b", "}">>}
    [] flag \in {"file2", "prefix", "event", "counter", "category", "grep", "tracker", "tag",
                 "intent"} -> SomeTexts
    [] flag \in {"limit", "buckets", "queryTimeoutMs", "callstackId"} -> Positive
    [] flag = "frameRange" -> SomeRanges
    [] OTHER -> Nonnegative

\* The questions tool t can be asked; its view is part of them.  A value is
\* chosen together with its flag, as values of two flags need not compare.
QuestionsOf(t) ==
  LET always == t.needs \cup (IF t.view = "" THEN {} ELSE {"view"})
      given  == {always \cup more : more \in {s \in SUBSET t.may : Cardinality(s) <= MostGiven}}
      Pairs(flags) == UNION {{<<f, v>> : v \in Schema(t, f)} : f \in flags}
      Filled(flags) ==
        {[f \in flags |-> choice[f][2]] :
           choice \in {c \in [flags -> Pairs(flags)] : \A f \in flags : c[f][1] = f}}
  IN  UNION {Filled(flags) : flags \in given}

Askable == [name \in DOMAIN AllTools |-> QuestionsOf(AllTools[name])]

\* variantHash: the arguments a tool's result is cached under.
Variant(t, q) == [f \in t.variant \cap DOMAIN q |-> q[f]]
=============================================================================
