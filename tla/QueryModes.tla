----------------------------- MODULE QueryModes -----------------------------
(***************************************************************************)
(* A question to a loaded trace and its answer (Main.cpp's and Daemon.cpp's*)
(* dispatch over the modes): one action per mode.  A loaded trace does not *)
(* change, so a question and what is asked about are one record.           *)
(***************************************************************************)
EXTENDS Catalogues, Comparison, MemoryViews

CONSTANTS Questions,    \* for each mode, the questions asked
          NoAnswer

VARIABLES mode, question, answer

modeVars == <<mode, question, answer>>

AskInit ==
  /\ mode \in DOMAIN Questions
  /\ question \in Questions[mode]
  /\ answer = NoAnswer

Answer(m, Answers(_)) ==
  /\ mode = m /\ answer = NoAnswer
  /\ answer' \in Answers(question)
  /\ UNCHANGED <<mode, question>>

Logs         == Answer("logs",         LAMBDA q : {RunLogs(q)})
Bookmarks    == Answer("bookmarks",    LAMBDA q : {RunBookmarks(q)})
Regions      == Answer("regions",      LAMBDA q : {RunRegions(q)})
Fences       == Answer("fences",       LAMBDA q : {RunGpuFences(q)})
Objects      == Answer("objects",      LAMBDA q : {EmitObjects(q)})
Tasks        == Answer("tasks",        LAMBDA q : {RunTaskList(q)})
Assets       == Answer("assets",       LAMBDA q : {RunAsset(q)})
Packets      == Answer("packets",      LAMBDA q : {EmitPackets(q)})
Crossings    == Answer("crossings",    LAMBDA q : {EmitFramesWhereCounterExceeds(q)})
InsideRegion == Answer("inside",       LAMBDA q : {EmitEventsInsideRegion(q)})
SlowLogs     == Answer("slow_logs",    LAMBDA q : {EmitLogsAroundSlowFrames(q)})
Frames       == Answer("frames",       LAMBDA q : {RunFrames(q)})
CpuDigest    == Answer("cpu_digest",   RunCpuDigest)
GpuDigest    == Answer("gpu_digest",   RunGpuDigest)
RegionDigest == Answer("region_digest", RunRegionDigest)
Overview     == Answer("overview",     RunOverview)
Threads      == Answer("threads",      RunThreads)
GpuQueues    == Answer("gpu_queues",   LAMBDA q : {RunGpuQueues(q)})
GpuTimeline  == Answer("gpu_timeline", RunGpuTimeline)
Timeline     == Answer("timeline",     LAMBDA q : {RunTimeline(q)})
Frame        == Answer("frame",        RunFrame)
Butterfly    == Answer("butterfly",    RunButterfly)
Compare      == Answer("compare",      RunCompare)
Counter      == Answer("counter",      LAMBDA q : {EmitSeries(q)})
MemoryTags   == Answer("tags",         LAMBDA q : {RunTagsView(q)})
MemorySeries == Answer("samples",      LAMBDA q : {RunSamplesView(q)})
AllocSeries  == Answer("allocations",  LAMBDA q : {RunTimelineView(q)})

TaskDrill    == Answer("task_drill",   LAMBDA q : {RunTaskDrill(q)})
Callstack    == Answer("callstack",    LAMBDA q : {RunCallstack(q)})
Channels     == Answer("channels",     LAMBDA q : {RunChannels(q)})
Counters     == Answer("counters",     LAMBDA q : {EmitCatalogue(q)})
Trackers     == Answer("trackers",     LAMBDA q : {RunTrackersView(q)})
Modules      == Answer("modules",      LAMBDA q : {RunModules(q)})
GameInstances == Answer("instances",    LAMBDA q : {EmitInstances(q)})
Connections  == Answer("connections",  LAMBDA q : {EmitConnections(q)})
Heaps        == Answer("heaps",        LAMBDA q : {EmitHeapTree(q)})

\* A stream longer than the sample: whatever RandRange returns.
AllPicks(n) == {p \in [1 .. n -> 0 .. n - 1] : \A i \in 1 .. n : p[i] \in Picks(i - 1)}

Sample ==
  Answer("sample", LAMBDA q : {Reservoir(q.stream, q.cap, p) : p \in AllPicks(Len(q.stream))})

AnswerNext ==
  \/ Logs \/ Bookmarks \/ Regions \/ Fences \/ Objects \/ Tasks \/ Assets \/ Packets
  \/ Crossings \/ InsideRegion \/ SlowLogs \/ Frames
  \/ CpuDigest \/ GpuDigest \/ RegionDigest \/ Overview \/ Threads \/ GpuQueues
  \/ GpuTimeline \/ Timeline \/ Frame \/ Butterfly \/ Compare
  \/ Counter \/ MemoryTags \/ MemorySeries \/ AllocSeries \/ Sample
  \/ TaskDrill \/ Callstack \/ Channels \/ Counters \/ Trackers \/ Modules
  \/ GameInstances \/ Connections \/ Heaps

Answered(modes) == mode \in modes /\ answer # NoAnswer

-----------------------------------------------------------------------------
(* Listings.                                                               *)

Meets(r, s) == r.start <= s.end /\ r.end >= s.start

IdsOf(rows, P(_)) == {rows[i].id : i \in {i \in DOMAIN rows : P(rows[i])}}

\* What a question asks for is said here as the descriptions of the tools and
\* their parameters say it (server.ts, schemas.ts, Query.cpp's list of intents),
\* and not as the modes select it.

\* "Messages strictly less severe than this are excluded."  A floor that is not
\* the name of a severity excludes nothing: all, none, or what is unknown.
Severities == <<"fatal", "error", "warning", "display", "log", "verbose", "very_verbose">>

SevereEnough(floor, message) ==
  \A v \in DOMAIN Severities :
    Severities[v] = (IF floor = "warn" THEN "warning" ELSE floor) => message.verbosity <= v

\* Rows from frames first to past - 1: they end no earlier than the one begins
\* and begin no later than the other ends, as far as there are such frames.
InFrames(q, row) ==
  0 <= q.first /\ q.first < q.past =>
    \A f \in ToSet(q.frames) : /\ f.id = q.first => row.end >= f.start
                               /\ f.id = q.past - 1 => row.start <= f.end

\* "Inclusive start packet index.  Default: last `limit' packets", and "Inclusive
\* end packet index.  Default: most recent".
InPackets(q, row) ==
  /\ IF q.packetStart >= 0 THEN row.id >= q.packetStart ELSE Len(q.rows) - row.id <= q.limit
  /\ q.packetEnd >= 0 => row.id <= q.packetEnd

\* Frame n is the last that has begun; frame 0 stands for the time before, too.
CurrentFrame(q, n, time) ==
  /\ n = 0 \/ \E f \in ToSet(q.frames) : f.id = n /\ f.start <= time
  /\ \A f \in ToSet(q.frames) : f.id > n => f.start > time

\* "CPU events that ran inside named region instances" (server.ts), "CPU events
\* whose start time falls inside any instance" (Query.cpp).
RanInside(region, event) == event.end >= region.start /\ (region.end = Open \/ event.start <= region.end)

StartsInside(region, event) ==
  event.start >= region.start /\ (region.end = Open \/ event.start <= region.end)

InsidePairs(q, timelines, Inside(_, _)) ==
  LET regions == {r \in UNION {ToSet(q.groups[g].rows) : g \in DOMAIN q.groups} : r.name = q.region}
      events  == UNION {ToSet(q.timelines[t]) : t \in timelines}
  IN  {<<p[1].id, p[2].id>> :
         p \in {p \in regions \X events : Inside(p[1], p[2]) /\ (q.prefix => p[2].prefixed)}}

\* A frame past the threshold: the share of the others that are no longer than it
\* is at least the quantile.
PastThreshold(q, i) ==
  LET Took(j) == q.frames[j].end - q.frames[j].start
      others  == {j \in DOMAIN q.frames : Took(j) <= Took(i)} \ {i}
  IN  q.quantile.den * Cardinality(others) >= q.quantile.num * (Len(q.frames) - 1)

\* "Logs in a window around each frame past a pX threshold."
AroundPairs(q) ==
  UNION {{<<q.frames[i].id, l.id>> :
            l \in {l \in ToSet(q.rows) : /\ l.time >= q.frames[i].start - q.window
                                         /\ l.time <= q.frames[i].end + q.window}} :
         i \in {i \in DOMAIN q.frames : PastThreshold(q, i)}}

\* What may be shown for a question, by the keys of the rows.
Wanted(q) ==
  CASE mode = "logs" ->
         IdsOf(q.rows, LAMBDA r : /\ SevereEnough(q.verbosity, r)
                                  /\ q.category # "" => r.category = q.category
                                  /\ q.grep => r.matches)
    [] mode = "bookmarks" -> IdsOf(q.rows, LAMBDA r : TRUE)
    [] mode = "regions" ->
         UNION {IdsOf(q.groups[g].rows, LAMBDA r : q.category \in {"", q.groups[g].category}) :
                  g \in DOMAIN q.groups}
    [] mode \in {"fences", "objects"} ->
         UNION {IdsOf(q.groups[g].rows, LAMBDA r : q.group < 0 \/ q.groups[g].id = q.group) :
                  g \in DOMAIN q.groups}
    [] mode = "tasks" -> IdsOf(q.rows, LAMBDA r : InFrames(q, r))
    [] mode = "assets" -> IdsOf(q.rows, LAMBDA r : r.info /\ InFrames(q, r))
    [] mode = "packets" -> IdsOf(q.rows, LAMBDA r : InPackets(q, r))
    [] mode = "crossings" ->
         {n \in 0 .. Len(q.frames) :
            \E s \in ToSet(q.rows) : /\ s.value > q.threshold \/ (q.orEqual /\ s.value = q.threshold)
                                     /\ CurrentFrame(q, n, s.time)}
    [] mode = "inside" -> InsidePairs(q, q.cpu, RanInside)
    [] mode = "slow_logs" -> AroundPairs(q)

\* What the answer to it may hold besides, though no description asks for it: the
\* events of a timeline that is not a CPU thread's (Query.cpp:241).
Unasked(q) ==
  IF mode = "inside" THEN InsidePairs(q, DOMAIN q.timelines \ q.cpu, RanInside) ELSE {}

\* What has to be shown for it, unless the answer says that there is more: where
\* two of the descriptions differ, what both of them ask for, and no very verbose
\* message.
Due(q) ==
  CASE mode = "logs" -> Wanted(q) \cap IdsOf(q.rows, LAMBDA r : r.verbosity <= 6)
    [] mode = "inside" -> InsidePairs(q, q.cpu, StartsInside)
    [] OTHER -> Wanted(q)

KeyOfRow(row) ==
  CASE mode = "crossings" -> row.frame
    [] mode = "inside"    -> <<row.region, row.event.id>>
    [] mode = "slow_logs" -> <<row.frame, row.log.id>>
    [] OTHER              -> row.id

PlainListings == {"logs", "bookmarks", "regions", "fences", "objects", "tasks"}
InTraceOrder  == PlainListings \cup {"assets", "packets", "crossings"}
AllListings   == InTraceOrder \cup {"inside", "slow_logs"}

\* The number of a row tells it from the others, and grows in the order in which
\* they are enumerated, from one list to the next too.
Numbered(rows) ==
  /\ rows \in Seq(ToSet(rows))
  /\ \A i \in DOMAIN rows : "id" \in DOMAIN rows[i] /\ rows[i].id \in Int
  /\ \A i, j \in DOMAIN rows : i < j => rows[i].id < rows[j].id

NumberedLists(lists) ==
  /\ lists \in Seq(ToSet(lists))
  /\ \A g \in DOMAIN lists : Numbered(lists[g])
  /\ \A g, h \in DOMAIN lists : g < h =>
       \A i \in DOMAIN lists[g], j \in DOMAIN lists[h] : lists[g][i].id < lists[h][j].id

NumberedGroups(groups) ==
  /\ groups \in Seq(ToSet(groups))
  /\ NumberedLists([g \in DOMAIN groups |-> groups[g].rows])

\* A span ends no earlier than it starts.
IsSpan(r) == r.start \in Int /\ r.end \in Int /\ r.start <= r.end

\* The frames, numbered from 0 in the order in which they begin.
FramesInOrder(q) ==
  /\ Numbered(q.frames)
  /\ \A i \in DOMAIN q.frames : IsSpan(q.frames[i]) /\ q.frames[i].id = i - 1
  /\ \A i, j \in DOMAIN q.frames : i < j => q.frames[i].start <= q.frames[j].start

\* What a provider enumerates, and the arguments once they are parsed: a limit is
\* positive; packets and frames are numbered from 0; the samples of a counter come
\* in the order of their times; what has a span meets the capture, an event begins
\* in it; and no log line is from before it.
ListingQuestion(m, q) ==
  /\ q.limit \in Nat \ {0}
  /\ m \in {"logs", "bookmarks", "tasks", "assets", "packets", "slow_logs"} => Numbered(q.rows)
  /\ m \in {"regions", "fences", "objects", "inside"} => NumberedGroups(q.groups)
  /\ m = "logs" => \A i \in DOMAIN q.rows : q.rows[i].verbosity \in 1 .. 7
  /\ m = "packets" => /\ \A i \in DOMAIN q.rows : q.rows[i].id = i - 1
                      /\ q.packetStart \in Int /\ q.packetEnd \in Int
  /\ m \in {"tasks", "assets"} =>
       /\ FramesInOrder(q) /\ q.first \in Int /\ q.past \in Int /\ q.duration \in Int
       /\ \A i \in DOMAIN q.rows : IsSpan(q.rows[i]) /\ q.rows[i].start <= q.duration
                                   /\ q.rows[i].end >= 0
  /\ m = "crossings" =>
       /\ FramesInOrder(q) /\ q.rows \in Seq(ToSet(q.rows)) /\ q.threshold \in Int
       /\ \A i \in DOMAIN q.rows : q.rows[i].time \in Int /\ q.rows[i].value \in Int
       /\ \A i, j \in DOMAIN q.rows : i < j => q.rows[i].time <= q.rows[j].time
  /\ m = "inside" =>
       /\ NumberedLists(q.timelines) /\ q.cpu \subseteq DOMAIN q.timelines /\ q.duration \in Nat
       /\ \A g \in DOMAIN q.groups : \A r \in ToSet(q.groups[g].rows) :
            {"start", "end"} \subseteq DOMAIN r /\ r.start \in Int /\ (r.end = Open \/ r.end \in Int)
       /\ \A t \in DOMAIN q.timelines : \A e \in ToSet(q.timelines[t]) :
            IsSpan(e) /\ e.start <= q.duration
  /\ m = "slow_logs" =>
       /\ FramesInOrder(q) /\ q.window \in Int
       /\ q.quantile.num \in Int /\ q.quantile.den \in Int
       /\ \A i \in DOMAIN q.rows : q.rows[i].time \in Nat

ASSUME QuestionsAssumption ==
  \A m \in AllListings \cap DOMAIN Questions : \A q \in Questions[m] : ListingQuestion(m, q)

\* An answer says that there is more than it shows.
SaysTruncated == "truncated" \in DOMAIN answer /\ answer.truncated

Shown == [i \in DOMAIN answer.events |-> KeyOfRow(answer.events[i])]

Listed(modes) == Answered(modes) /\ answer # Refusal

\* A listing that is not refused shows only what was asked for, each row once, the
\* earliest first and never more than the limit; one that does not say it is
\* truncated shows everything it had to, and one without second thoughts about
\* rows says so only if something asked for is not shown (the Emitted, Total and
\* truncated of every listing mode).  Three exceptions: the logs near slow frames,
\* where the flag says nothing once the limit is reached (Query.cpp:341); packets
\* where none was asked for (Net.cpp:163); and the events Unasked names.
ListingsHonest ==
  Listed(AllListings) =>
    LET wanted == Wanted(question)
        due    == Due(question)
    IN  /\ Len(Shown) <= question.limit
        /\ IsInjective(Shown)
        /\ (mode = "packets" => wanted # {}) => ToSet(Shown) \subseteq wanted \cup Unasked(question)
        /\ ~SaysTruncated /\ (mode = "slow_logs" => Len(Shown) < question.limit)
             => due \subseteq ToSet(Shown)
        /\ mode \in PlainListings /\ SaysTruncated => ToSet(Shown) # wanted
        /\ mode \in InTraceOrder =>
             /\ \A i, j \in DOMAIN Shown : i < j => Shown[i] < Shown[j]
             /\ \A k \in due \ ToSet(Shown) : \A i \in DOMAIN Shown : Shown[i] < k

\* What the texts that come with the code say and it does not keep.

\* "all / empty / unknown all collapse to ... include everything" (Logs.cpp:17).
LogsInFull == Listed({"logs"}) /\ ~SaysTruncated => Wanted(question) \subseteq ToSet(Shown)

\* "Inclusive start packet index" (schemas.ts:475).
PacketsFromStart ==
  Listed({"packets"}) /\ question.packetStart >= 0 =>
    \A i \in DOMAIN Shown : Shown[i] >= question.packetStart

\* "List CPU events whose start time falls inside any instance" (Query.cpp:84).
EventsStartInside ==
  Listed({"inside"}) => ToSet(Shown) \subseteq InsidePairs(question, question.cpu, StartsInside)

\* "Every frame whose duration exceeds the percentile threshold ... within a window
\* around the frame's start" (Query.cpp:87).
LogsNearStart ==
  Listed({"slow_logs"}) =>
    \A row \in ToSet(answer.events), f \in ToSet(question.frames) :
      f.id = row.frame => row.log.time \in f.start - question.window .. f.start + question.window

\* "verbosity?: <warning|error|...>", a parameter of that intent (Query.cpp:88).
NearLogsSevere ==
  Listed({"slow_logs"}) =>
    \A row \in ToSet(answer.events) : SevereEnough(question.verbosity, row.log)

\* "For every frame past a pX threshold, return logs in a window around it"
\* (server.ts:143): an answer without a second thought about rows has them all.
NearLogsComplete ==
  Listed({"slow_logs"}) /\ ~SaysTruncated => AroundPairs(question) \subseteq ToSet(Shown)

-----------------------------------------------------------------------------
(* Frame ranges.                                                           *)

AskedFrames(q) == {q.frames[i + 1] : i \in q.first .. q.past - 1}

\* The time between the frames asked for, from the end of one to the start of the
\* next.
Between(q) ==
  {[start |-> q.frames[i].end, end |-> q.frames[i + 1].start] : i \in q.first + 1 .. q.past - 1}

RangeInTrace(q) == 0 <= q.first /\ q.first < q.past /\ q.past <= Len(q.frames)

\* What is asked about by a range of frames: no frame starts before the one before
\* it ended.
RangeModes == {"tasks", "assets", "timeline", "frames"}

RangeQuestion(m, q) ==
  /\ q.first \in Int /\ q.past \in Int
  /\ Numbered(q.frames)
  /\ \A i \in DOMAIN q.frames : IsSpan(q.frames[i])
  /\ \A i \in DOMAIN q.frames : i + 1 \in DOMAIN q.frames => q.frames[i].end <= q.frames[i + 1].start
  /\ m \in {"tasks", "assets"} => \A i \in DOMAIN q.rows : IsSpan(q.rows[i])
  /\ m = "timeline" => /\ NumberedLists(q.timelines)
                       /\ \A t \in DOMAIN q.timelines : \A i \in DOMAIN q.timelines[t] :
                            IsSpan(q.timelines[t][i])
  /\ m = "frames" => q.limit \in Nat \ {0}

ASSUME RangesAssumption ==
  \A m \in RangeModes \cap DOMAIN Questions : \A q \in Questions[m] : RangeQuestion(m, q)

\* A frame range that lies in the trace stands for its frames in every view
\* that takes one: tasks and assets that met one of the frames or the time between
\* two of them, instances that did, or the frames themselves (ResolveWindow,
\* RunFrames).
RangesAreFrames ==
  Answered(RangeModes) /\ RangeInTrace(question) =>
    LET q == question
        Asked(r) == \E f \in AskedFrames(q) \cup Between(q) : Meets(r, f)
    IN  /\ mode \in {"tasks", "assets"} /\ Len(answer.events) < q.limit =>
             {e.id : e \in ToSet(answer.events)}
               = IdsOf(q.rows, LAMBDA r : (mode = "assets" => r.info) /\ Asked(r))
        /\ mode = "timeline" /\ q.channel = "cpu" =>
             Len(answer) = Len(Selected(AllEvents(q), LAMBDA e : /\ e.timer \in TimerIdsByName(q)
                                                                 /\ Asked(e)))
        /\ mode = "frames" =>
             answer.events = FirstOf(Selected(q.frames, LAMBDA f : f \in AskedFrames(q)), q.limit)

-----------------------------------------------------------------------------
(* Digests.                                                                *)

\* What a channel measures: pairs of a timer (or a region's name) and a time.
Measured(q, channel) ==
  LET Scoped(events) ==
        Selected(events, LAMBDA e : /\ q.timers[e.timer].scope = channel
                                    /\ q.timers[e.timer].name # NoName
                                    /\ q.prefix => q.timers[e.timer].prefixed)
      events  == Scoped(IF channel = "gpu" THEN GpuEvents(q) ELSE AllEvents(q))
      regions == Selected(RowsOf(q.groups, LAMBDA g : TRUE), LAMBDA r : q.prefix => r.prefixed)
  IN  IF channel = "region"
      THEN [i \in DOMAIN regions |->
              [key |-> regions[i].name, name |-> regions[i].name,
               time |-> (IF regions[i].end = Open THEN q.duration ELSE regions[i].end)
                        - regions[i].start]]
      ELSE [i \in DOMAIN events |->
              [key |-> events[i].timer, name |-> q.timers[events[i].timer].name,
               time |-> Duration(events[i])]]

Times(measured) == [i \in DOMAIN measured |-> measured[i].time]

TimesOfKey(measured, key) == Times(Selected(measured, LAMBDA m : m.key = key))

\* v is the quantile p of the times, times p.den: no more of them are below it
\* than the rank, rounded up, and more than the rank are not above it.
IsQuantile(v, p, times) ==
  LET rank == p.num * (Len(times) - 1)
  IN  /\ p.den * Cardinality({i \in DOMAIN times : p.den * times[i] < v}) < rank + p.den
      /\ p.den * Cardinality({i \in DOMAIN times : p.den * times[i] <= v}) > rank

DigestOf(rows, measured, limit) ==
  LET Key(row) == IF mode = "region_digest" THEN row.name ELSE row.timer
      keys  == {measured[i].key : i \in DOMAIN measured}
      shown == {Key(row) : row \in ToSet(rows)}
  IN  /\ \A row \in ToSet(rows) :
           LET times == TimesOfKey(measured, Key(row))
           IN  /\ row.count = Len(times) /\ row.total = SumOf(times)
               /\ IsQuantile(row.p50, P50, times)
               /\ IsQuantile(row.p95, P95, times)
               /\ IsQuantile(row.p99, P99, times)
               /\ 100 * row.min <= row.p50 /\ row.p50 <= row.p95
               /\ row.p95 <= row.p99 /\ row.p99 <= 100 * row.max
      /\ Len(rows) <= limit /\ Cardinality(shown) = Len(rows)
      /\ Len(rows) < limit => shown = keys
      /\ \A k \in keys \ shown, row \in ToSet(rows) : row.total >= SumOf(TimesOfKey(measured, k))

\* A sample of n values stands for all of them: every value is as likely to be in
\* it as any other.
SampledFairly(q, n) ==
  LET Kept(i, p) == q.stream[i] \in ToSet(Reservoir(q.stream, q.cap, p).samples)
  IN  \A i \in 1 .. n :
        n * Cardinality({p \in AllPicks(n) : Kept(i, p)})
          = Lesser(q.cap, n) * Cardinality(AllPicks(n))

CoveredTime(events, duration) ==
  Cardinality({t \in 0 .. duration - 1 :
                 \E i \in DOMAIN events : events[i].start <= t /\ t < events[i].end})

FullRange(q) == q.first < 0

Named(q) == Selected(Measured(q, q.channel), LAMBDA m : m.name = q.event)

EventChannels == {"cpu", "gpu", "region"}

TotalOfName(trace, channel, name) ==
  SumOf(Times(Selected(Measured(trace, channel), LAMBDA m : m.name = name)))

\* A digest accounts for every event of its channel that has a name: its rows
\* count and add up exactly the events of their timer, their percentiles are
\* order statistics of those times, no row left out outweighs one that is shown,
\* and none is left out below the limit (Digest.cpp, Overview.cpp).  When there
\* are more times than the sample holds, the percentiles are those of a fair
\* sample, and what does not depend on it is still exact (Percentiles.h).  Other
\* views add up to the same: a thread is busy for as long as an event of it
\* covers, although it is computed from the outermost events alone (Threads.cpp);
\* the instances of a name take as long as the channel measures for it
\* (Timeline.cpp); the GPU queues together hold the events of the GPU digest
\* (Gpu.cpp); and a comparison adds up, for each name, all that a trace measures
\* under that name, whichever timers bear it (Compare.cpp).
DigestsExact ==
  LET q == question IN
  /\ Answered({"cpu_digest"}) => DigestOf(answer, Measured(q, "cpu"), q.limit)
  /\ Answered({"gpu_digest"}) => DigestOf(answer, Measured(q, "gpu"), q.limit)
  /\ Answered({"region_digest"}) => DigestOf(answer, Measured(q, "region"), q.limit)
  /\ Answered({"overview"}) =>
       DigestOf(answer.events, Measured(q, "cpu"), Lesser(q.limit, OverviewTop))
  /\ Answered({"sample"}) =>
       /\ answer.seen = Len(q.stream) /\ answer.sum = SumOf(q.stream)
       /\ answer.min = Min(ToSet(q.stream)) /\ answer.max = Max(ToSet(q.stream))
       /\ SampledFairly(q, Len(q.stream))
  /\ Answered({"threads"}) =>
       \A row \in ToSet(answer) :
         row.busy = CoveredTime(q.timelines[q.threads[row.thread]], q.duration)
  /\ Answered({"timeline"}) /\ q.channel # "gpu" /\ FullRange(q) =>
       SumOf([i \in DOMAIN answer |-> answer[i].duration]) = SumOf(Times(Named(q)))
  /\ Answered({"gpu_timeline"}) /\ q.group < 0 /\ q.queues # <<>> =>
       LET count == SumOf([i \in DOMAIN answer |-> answer[i].count])
       IN  count = IF \E i \in DOMAIN q.queues : q.queues[i].timeline # 0
                   THEN Len(GpuEvents(q)) ELSE 0
  /\ Answered({"compare"}) /\ q.channel \in EventChannels =>
       \A row \in ToSet(answer) : /\ row.a.total = TotalOfName(q.a, q.channel, row.name)
                                  /\ row.b.total = TotalOfName(q.b, q.channel, row.name)

-----------------------------------------------------------------------------
(* Views of the same events.                                               *)

\* A trace: every list has an end, GPU queues refer to timelines there are, and a
\* region begins and ends in the trace.
IsList(rows) == rows \in Seq(ToSet(rows))

IsTrace(t) ==
  /\ IsList(t.timelines) /\ \A i \in DOMAIN t.timelines : IsList(t.timelines[i])
  /\ IsList(t.queues)
  /\ \A i \in DOMAIN t.queues : t.queues[i].timeline \in {0} \cup DOMAIN t.timelines
  /\ IsList(t.legacy) /\ \A i \in DOMAIN t.legacy : t.legacy[i] \in DOMAIN t.timelines
  /\ t.duration \in Nat /\ IsList(t.groups)
  /\ \A g \in DOMAIN t.groups :
       /\ IsList(t.groups[g].rows)
       /\ \A r \in ToSet(t.groups[g].rows) :
            /\ r.start \in 0 .. t.duration
            /\ r.end = Open \/ (r.end \in Int /\ r.start <= r.end)

\* What the views are asked about: a trace whose events begin in it and are of
\* timers that it has; children with a number for their total; numbered tasks;
\* game instances each with a number of its own.
ViewQuestion(m, q) ==
  /\ m = "timeline" =>
       /\ IsTrace(q) /\ ~q.prefix /\ q.channel \in EventChannels /\ q.event # NoName
       /\ RangeQuestion(m, q)
       /\ \A t \in DOMAIN q.timelines : \A i \in DOMAIN q.timelines[t] :
            LET e == q.timelines[t][i]
            IN  e.timer \in DOMAIN q.timers /\ e.start \in 0 .. q.duration
  /\ m = "butterfly" =>
       /\ q.limit \in Nat \ {0} /\ IsList(q.timers)
       /\ \A t \in DOMAIN q.timers : /\ IsFiniteSet(q.children[t])
                                     /\ \A c \in q.children[t] : c.total \in Int
  /\ m = "task_drill" => Numbered(q.rows) /\ q.limit \in Nat \ {0}
  /\ m = "callstack" => IsList(q.stack)
  /\ m = "connections" =>
       /\ IsList(q.groups) /\ \A g \in DOMAIN q.groups : IsList(q.groups[g].rows)
       /\ \A g \in DOMAIN q.groups : q.groups[g].id \in Nat
       /\ \A g, h \in DOMAIN q.groups : g # h => q.groups[g].id # q.groups[h].id
  /\ m = "heaps" => IsList(q.roots) /\ IsList(q.heaps)

ViewModes == {"timeline", "butterfly", "task_drill", "callstack", "connections", "heaps"}

ASSUME ViewsAssumption ==
  \A m \in ViewModes \cap DOMAIN Questions : \A q \in Questions[m] : ViewQuestion(m, q)

\* The views of one trace tell the same story: the instances of a name are as many
\* as the channel measures for that name, and each is listed under the frame it
\* began in; callers and callees come with the largest first (Timeline.cpp).  A
\* task in the list can be looked at and is the same there, and a frame of a
\* callstack keeps its depth whichever others are missing (Tasks.cpp,
\* Callstack.cpp); all connections are those of each game instance, one after the
\* other (Net.cpp); and no heap crowds out a root (Allocations.cpp).
ViewsAgree ==
  LET q == question IN
  /\ Answered({"timeline"}) /\ q.channel # "gpu" =>
       /\ FullRange(q) => Len(answer) = Len(Named(q))
       /\ \A i \in DOMAIN answer, f \in DOMAIN q.frames :
            /\ q.frames[f].start <= answer[i].start /\ answer[i].start < q.frames[f].end
            => answer[i].frame = f - 1
  /\ Answered({"butterfly"}) =>
       \A i, j \in DOMAIN answer : i < j => answer[i].total >= answer[j].total
  /\ Answered({"task_drill"}) =>
       \A task \in ToSet(RunTaskList(q).events) :
         task.id = q.taskId => answer.found /\ answer.task = task
  /\ Answered({"callstack"}) =>
       /\ answer.found <=> answer.count > 0
       /\ {f.depth + 1 : f \in ToSet(answer.frames)} = {d \in DOMAIN q.stack : q.stack[d] # Missing}
       /\ \A f \in ToSet(answer.frames) : q.stack[f.depth + 1] = f.frame
  /\ Answered({"connections"}) /\ q.group < 0 =>
       LET Of(id) == EmitConnections([groups |-> q.groups, group |-> id]).events
           ids == EmitInstances(q).events
       IN  answer.events = Joined([i \in DOMAIN ids |-> Of(ids[i])])
  /\ Answered({"heaps"}) /\ Len(q.roots) <= MaxHeaps =>
       {h.heap : h \in {h \in ToSet(answer.events) : h.isRoot}} = ToSet(q.roots)

\* What the tools say of channel gpu: the instances of a GPU event are found
\* (README.md on trace_timeline).
GpuInstancesFound ==
  Answered({"timeline"}) /\ question.channel = "gpu" /\ FullRange(question) =>
    \A i \in DOMAIN GpuEvents(question) :
      question.timers[GpuEvents(question)[i].timer].name = question.event => answer # <<>>

-----------------------------------------------------------------------------
(* Comparisons.                                                            *)

Swapped(q) ==
  [channel |-> q.channel, a |-> q.b, b |-> q.a, threshold |-> q.threshold, limit |-> q.limit]

SwappedRow(row) ==
  [name |-> row.name, a |-> row.b, b |-> row.a, onlyInA |-> row.onlyInB, onlyInB |-> row.onlyInA]

NamesIn(trace, channel) ==
  {Measured(trace, channel)[i].name : i \in DOMAIN Measured(trace, channel)}

CompareQuestion(q) ==
  /\ q.limit \in Nat \ {0}
  /\ \A t \in {q.a, q.b} : IsTrace(t) /\ IsList(t.tags) /\ IsList(t.counters)

ASSUME ComparesAssumption ==
  "compare" \in DOMAIN Questions => \A q \in Questions.compare : CompareQuestion(q)

\* A comparison sees both traces alike: exchanging them exchanges the columns.
\* And a name that an event channel of only one trace has is never dropped,
\* whatever the threshold (Compare.cpp).
ComparesFair ==
  Answered({"compare"}) /\ Len(answer) < question.limit =>
    /\ \A other \in RunCompare(Swapped(question)) :
         {SwappedRow(row) : row \in ToSet(other)} = ToSet(answer)
    /\ question.channel \in EventChannels =>
         LET inA == NamesIn(question.a, question.channel)
             inB == NamesIn(question.b, question.channel)
         IN  (inA \ inB) \cup (inB \ inA) \subseteq {row.name : row \in ToSet(answer)}

-----------------------------------------------------------------------------
(* Series and memory tags.                                                 *)

\* Bucket b of n holds the points of its share of the window; the last one its
\* end too.
InBucket(p, b, q) ==
  /\ p.time >= 0 /\ p.time <= q.duration
  /\ b * q.duration <= p.time * q.buckets
  /\ p.time * q.buckets < (b + 1) * q.duration \/ b = q.buckets - 1

EverySampleOnce(q, points) ==
  /\ \A row \in ToSet(answer.series) :
       LET values == [i \in {i \in DOMAIN points : InBucket(points[i], row.bucket, q)} |->
                        points[i].value]
           held   == {values[i] : i \in DOMAIN values}
       IN  /\ row.count = Cardinality(DOMAIN values)
           /\ row.min = Min(held) /\ row.max = Max(held)
  /\ SumOf([i \in DOMAIN answer.series |-> answer.series[i].count])
       = Len(Selected(points, LAMBDA p : p.time >= 0 /\ p.time <= q.duration))

\* A set of tags with the focus that holds the parents of its tags.
ClosedUpwards(q, focus, tags) ==
  /\ focus \in tags
  /\ \A t \in tags \cap DOMAIN q.tags : q.tags[t].parent \in tags \cup {NoTag}

\* The buckets of a series divide the samples in the window among them, every
\* sample in one, the end of the window included; and the tags shown for a tag
\* are the least set with it that holds the parent of each, whatever the parents
\* say, one that is missing or a circle included (SeriesBucket.h, Memory.cpp).
MemoryViewsExact ==
  LET q == question IN
  /\ Answered({"counter", "allocations"}) /\ answer.found => EverySampleOnce(q, q.points)
  /\ Answered({"samples"}) /\ answer.found =>
       EverySampleOnce(q, IF ResolveTagId(q) \in DOMAIN q.samples
                          THEN q.samples[ResolveTagId(q)] ELSE <<>>)
  /\ Answered({"tags"}) /\ ResolveTagId(q) # NoTag /\ q.tracker = NoTracker =>
       LET focus == ResolveTagId(q)
           all   == {focus} \cup DOMAIN q.tags \cup {q.tags[t].parent : t \in DOMAIN q.tags}
           upward == {tags \in SUBSET (all \ {NoTag}) : ClosedUpwards(q, focus, tags)}
       IN  answer = {t \in DOMAIN q.tags : \A tags \in upward : t \in tags}
=============================================================================
