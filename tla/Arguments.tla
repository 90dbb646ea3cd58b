----------------------------- MODULE Arguments -----------------------------
(***************************************************************************)
(* The arguments of a question on their way from the MCP server to         *)
(* TraceDigest.  digest.ts writes them down twice, as the argv of a        *)
(* one-shot run and as the line sent to a daemon, and Args.cpp reads them  *)
(* from a third list of flags; nothing but care keeps the lists together.  *)
(*                                                                         *)
(* The arguments of a question are a function from the flags it gives.  A  *)
(* text is a sequence of words and separators, <<>> the empty string.      *)
(***************************************************************************)
EXTENDS Integers, Sequences, SequencesExt

Texts ==
  {"file2", "prefix", "event", "channel", "view", "counter", "category", "verbosity", "grep",
   "tracker", "tag", "rule", "intent", "params", "state", "direction"}

Numbers ==
  {"limit", "threshold", "frame", "timeA", "timeB", "buckets", "queue", "queryTimeoutMs",
   "callstackId", "taskId", "gameInstanceId", "connectionId", "packetStart", "packetEnd"}

Flags == Texts \cup Numbers \cup {"frameRange"}

-----------------------------------------------------------------------------
(* What is sent.                                                           *)

\* The flags a list writes down: a text unless it is empty, a number whenever
\* it is defined, zero included.
Given(args) == {f \in DOMAIN args : f \in Texts => args[f] # <<>>}

Sent(args, list) == [f \in list \cap Given(args) |-> args[f]]

\* The flags each list holds.
ArgvFlags ==
  {"file2", "prefix", "event", "limit", "threshold", "frameRange", "frame", "channel", "view",
   "counter", "category", "verbosity", "grep", "tracker", "tag", "rule", "timeA", "timeB",
   "buckets", "queue", "queryTimeoutMs", "intent", "params", "callstackId", "taskId", "state",
   "gameInstanceId", "connectionId", "direction", "packetStart", "packetEnd"}

LineFlags ==
  {"file2", "prefix", "event", "limit", "threshold", "frame", "frameRange", "channel", "view",
   "counter", "category", "verbosity", "grep", "tracker", "tag", "rule", "timeA", "timeB",
   "buckets", "queue", "queryTimeoutMs", "intent", "params", "callstackId", "taskId", "state",
   "gameInstanceId", "connectionId", "direction", "packetStart", "packetEnd"}

MutArgvDropsFlag(args) == Sent(args, ArgvFlags \ {"packetStart"})
buildBinaryArgv(args) == Sent(args, ArgvFlags)

MutLineDropsFlag(args) == Sent(args, LineFlags \ {"gameInstanceId"})
daemonLine(args) == Sent(args, LineFlags)

-----------------------------------------------------------------------------
(* What is read.                                                           *)

Separators == {" ", ","}

\* FParse::Value: a value in quotes is read whole, another one ends at the first
\* separator.
Token(text, quoted) ==
  IF quoted \/ ~\E i \in DOMAIN text : text[i] \in Separators
  THEN text
  ELSE SubSeq(text, 1, SelectInSeq(text, LAMBDA w : w \in Separators) - 1)

\* The parts of a daemon's line are joined with spaces and nothing is quoted;
\* the engine puts an argument with a space in quotes when it joins argv.
Quoted(text, route) == route = "one-shot" /\ Contains(text, " ")

\* Base64 makes one word of any params.
MutParamsPlain(line, flag, route) == Token(line[flag], Quoted(line[flag], route))
TextOf(line, flag, route) ==
  IF flag = "params" THEN line[flag] ELSE Token(line[flag], Quoted(line[flag], route))

\* FArgs before it is parsed: empty texts, and numbers that mean "not given".
NotGiven ==
  [f \in Flags |->
     CASE f \in Texts        -> <<>>
       [] f = "frameRange"   -> <<-1, -1>>
       [] f \in {"threshold", "callstackId"} -> 0
       [] f = "limit"        -> 200
       [] f = "buckets"      -> 256
       [] f = "queryTimeoutMs" -> 60000
       [] OTHER              -> -1]

\* What every mode gets for a value it cannot use.
Normalised(a) ==
  [f \in Flags |->
     CASE f \in {"queryTimeoutMs", "buckets", "limit"} -> IF a[f] <= 0 THEN NotGiven[f] ELSE a[f]
       [] f = "channel" -> IF a[f] = <<>> THEN <<"cpu">> ELSE a[f]
       [] OTHER -> a[f]]

\* The views of an umbrella mode; the first is the one taken when none is given.
ViewsOf(mode) ==
  CASE mode = "gpu"         -> <<"queues", "timeline", "fences">>
    [] mode = "memory"      -> <<"trackers", "tags", "samples">>
    [] mode = "allocations" -> <<"timeline", "heaps", "query">>
    [] mode = "asset"       -> <<"packages", "requests", "exports">>
    [] mode = "net"         -> <<"instances", "connections", "packets", "objects">>
    [] OTHER                -> <<>>

WithView(mode, a) ==
  [a EXCEPT !["view"] = IF @ = <<>> /\ ViewsOf(mode) # <<>> THEN <<Head(ViewsOf(mode))>> ELSE @]

ChannelsOf(mode) ==
  CASE mode \in {"digest", "timeline"}   -> {"cpu", "gpu", "region"}
    [] mode \in {"callers", "callees"}   -> {"cpu", "gpu"}
    [] mode = "compare" -> {"cpu", "gpu", "region", "memory", "memalloc", "counter"}

\* What a mode requires of its arguments.
MutFrameZeroMissing(mode, a) == ~(mode = "frame" /\ a["frame"] <= 0)
Valid(mode, a) ==
  /\ mode = "compare" => a["file2"] # <<>>
  /\ mode \in {"timeline", "callers", "callees"} => a["event"] # <<>>
  /\ mode = "frame" => a["frame"] >= 0
  /\ ViewsOf(mode) # <<>> => \E v \in ToSet(ViewsOf(mode)) : a["view"] = <<v>>
  /\ mode = "memory" /\ a["view"] = <<"samples">> => a["tag"] # <<>>
  /\ mode = "allocations" /\ a["view"] = <<"query">> => a["rule"] # <<>>
  /\ mode = "query" => a["intent"] # <<>>
  /\ mode = "callstack" => a["callstackId"] # 0
  /\ mode = "task_drill" => a["taskId"] # NotGiven["taskId"]
  /\ mode = "net" /\ a["view"] = <<"packets">> => a["connectionId"] >= 0
  /\ mode \in {"digest", "timeline", "callers", "callees", "compare"} =>
       \E c \in ChannelsOf(mode) : a["channel"] = <<c>>

\* FArgs::Parse of what was sent: the flags it looks for, then defaults.
ReadFlags ==
  {"file2", "prefix", "event", "limit", "threshold", "frame", "channel", "view", "counter",
   "category", "verbosity", "grep", "tracker", "tag", "rule", "intent", "params", "buckets",
   "queue", "timeA", "timeB", "queryTimeoutMs", "callstackId", "taskId", "state",
   "gameInstanceId", "connectionId", "direction", "packetStart", "packetEnd", "frameRange"}

Read(line, flags, route) ==
  [f \in Flags |->
     IF f \in flags \cap DOMAIN line
     THEN IF f \in Texts THEN TextOf(line, f, route) ELSE line[f]
     ELSE NotGiven[f]]

MutParseForgetsFlag(mode, line, route) ==
  WithView(mode, Normalised(Read(line, ReadFlags \ {"direction"}, route)))
Parse(mode, line, route) ==
  WithView(mode, Normalised(Read(line, ReadFlags, route)))
=============================================================================
