------------------------------ MODULE Listings ------------------------------
(***************************************************************************)
(* The query modes of TraceDigest that list rows of a loaded trace up to a *)
(* limit (Logs, Regions, Bookmarks, Tasks, Asset, Gpu fences, Net, Frames, *)
(* Query).  A question q holds the rows the provider enumerates, in its    *)
(* order, and the arguments after FArgs::Parse, so that q.limit > 0; an    *)
(* answer the rows emitted, the rows counted and the truncated flag.  A    *)
(* refused question is answered by an error alone; q.missing holds what is *)
(* not there: a parameter, the counter it names, or the provider.          *)
(***************************************************************************)
EXTENDS Sampling

CONSTANT Open      \* the end of a region that was still open at the capture's end

Refusal == [ok |-> FALSE]

FirstOf(rows, limit) == SubSeq(rows, 1, Lesser(limit, Len(rows)))

\* Rows are counted whether they are emitted or not.
MutCountsEmitted(rows, limit) ==
  LET events == FirstOf(rows, limit)
  IN  [events |-> events, total |-> Len(events), truncated |-> FALSE]
MutOffByOne(rows, limit) ==
  LET events == FirstOf(rows, limit)
  IN  [events |-> events, total |-> Len(rows), truncated |-> Len(rows) >= limit]
Listing(rows, limit) ==
  LET events == FirstOf(rows, limit)
  IN  [events |-> events, total |-> Len(rows), truncated |-> Len(rows) > Len(events)]

\* The rows of the groups (timelines, queues, game instances) that are wanted.
RowsOf(groups, Wanted(_)) ==
  LET wanted == Selected(groups, Wanted)
  IN  Joined([i \in DOMAIN wanted |-> wanted[i].rows])

-----------------------------------------------------------------------------
(* Logs.  The lower the number, the more severe; "" is an argument left    *)
(* out.  very_verbose messages (7) pass no floor.                          *)

FloorOf == [fatal |-> 1, error |-> 2, warning |-> 3, warn |-> 3, display |-> 4,
            log |-> 5, verbose |-> 6, all |-> 6]

VerbosityFloor(name) == IF name \in DOMAIN FloorOf THEN FloorOf[name] ELSE FloorOf.verbose

MutFloorExclusive(q, message) ==
  /\ message.verbosity < VerbosityFloor(q.verbosity)
  /\ q.category \in {"", message.category}
  /\ q.grep => message.matches
LogPasses(q, message) ==
  /\ message.verbosity <= VerbosityFloor(q.verbosity)
  /\ q.category \in {"", message.category}
  /\ q.grep => message.matches

RunLogs(q) == Listing(Selected(q.rows, LAMBDA m : LogPasses(q, m)), q.limit)

-----------------------------------------------------------------------------
(* Listings without filters, or with one on the group.                     *)

RunBookmarks(q) == Listing(q.rows, q.limit)

RegionRow(q, region) ==
  [region EXCEPT !.end = IF region.end = Open THEN q.duration ELSE region.end]

RunRegions(q) ==
  LET rows == RowsOf(q.groups, LAMBDA g : q.category \in {"", g.category})
  IN  Listing([i \in DOMAIN rows |-> RegionRow(q, rows[i])], q.limit)

\* -queue= of the fences and -game-instance-id= of the objects: negative is all.
GroupChosen(q, group) == q.group < 0 \/ q.group = group.id

RunGpuFences(q) == Listing(RowsOf(q.groups, LAMBDA g : GroupChosen(q, g)), q.limit)

EmitObjects(q) == Listing(RowsOf(q.groups, LAMBDA g : GroupChosen(q, g)), q.limit)

\* A row of an asset table that has no package behind it is counted, not emitted.
AssetTable(rows, limit) ==
  LET events == FirstOf(Selected(rows, LAMBDA r : r.info), limit)
  IN  [events |-> events, total |-> Len(rows), truncated |-> Len(events) < Len(rows)]

-----------------------------------------------------------------------------
(* Frame ranges.  q.frames[i + 1] is frame i; frame numbers are those of   *)
(* the Game thread.                                                        *)

HasFrame(q, i) == i \in 0 .. Len(q.frames) - 1

\* -framerange=A:B as a window of time.  A bound that names no frame leaves
\* its end of the window where it was.
MutEndOfFrameB(q) ==
  [start |-> IF q.first >= 0 /\ q.first < q.past /\ HasFrame(q, q.first)
             THEN q.frames[q.first + 1].start ELSE 0,
   end   |-> IF q.first >= 0 /\ q.first < q.past /\ HasFrame(q, q.past)
             THEN q.frames[q.past + 1].end ELSE q.duration]
ResolveWindow(q) ==
  LET given == q.first >= 0 /\ q.first < q.past
  IN  [start |-> IF given /\ HasFrame(q, q.first) THEN q.frames[q.first + 1].start ELSE 0,
       end   |-> IF given /\ HasFrame(q, q.past - 1) THEN q.frames[q.past].end ELSE q.duration]

\* What a provider enumerates for a window: the rows that overlap it.
Overlapping(rows, start, end) == Selected(rows, LAMBDA r : r.start <= end /\ r.end >= start)

RunTaskList(q) ==
  LET window == ResolveWindow(q)
  IN  Listing(Overlapping(q.rows, window.start, window.end), q.limit)

RunAsset(q) ==
  LET window == ResolveWindow(q)
  IN  AssetTable(Overlapping(q.rows, window.start, window.end), q.limit)

\* Frames are clamped to those there are, and cut off without a word.
MutInclusiveEnd(q) ==
  LET count == Len(q.frames)
      start == IF q.first >= 0 THEN Lesser(q.first, count) ELSE 0
      end   == IF q.past > 0 THEN Lesser(q.past + 1, count) ELSE count
  IN  [events |-> FirstOf(SubSeq(q.frames, start + 1, end), q.limit), total |-> count,
       truncated |-> FALSE]
RunFrames(q) ==
  LET count == Len(q.frames)
      start == IF q.first >= 0 THEN Lesser(q.first, count) ELSE 0
      end   == IF q.past > 0 THEN Lesser(q.past, count) ELSE count
  IN  [events |-> FirstOf(SubSeq(q.frames, start + 1, Greater(start, end)), q.limit),
       total |-> count, truncated |-> FALSE]

-----------------------------------------------------------------------------
(* Packets of a connection, numbered from 0; the last q.limit of them when *)
(* no bound is given (negative).                                           *)

PacketWindow(q) ==
  LET total == Len(q.rows)
      start == IF q.packetStart >= 0 THEN q.packetStart ELSE Greater(total - q.limit, 0)
      end   == IF q.packetEnd >= 0 THEN q.packetEnd ELSE Greater(total - 1, 0)
  IN  [start |-> Lesser(start, end), end |-> end]

EnumeratePackets(rows, window) ==
  SubSeq(rows, window.start + 1, Lesser(window.end + 1, Len(rows)))

EmitPackets(q) ==
  LET window == PacketWindow(q)
      events == FirstOf(EnumeratePackets(q.rows, window), q.limit)
  IN  [events |-> events, total |-> Len(q.rows),
       truncated |-> Len(events) < window.end - window.start + 1]

-----------------------------------------------------------------------------
(* Cross-cutting queries (mode=query).                                     *)

\* GetFrameNumberForTimestamp: the last frame begun; the first one before that.
MutFramesBegun(frames, time) == Cardinality({i \in DOMAIN frames : frames[i].start <= time})
FrameNumber(frames, time) == Greater(0, Cardinality({i \in DOMAIN frames : frames[i].start <= time}) - 1)

Exceeds(q, sample) ==
  IF q.orEqual THEN sample.value >= q.threshold ELSE sample.value > q.threshold

\* One row per frame, for its first crossing; every crossing is counted.
FramesOver(q) ==
  LET crossings == Selected(q.rows, LAMBDA s : Exceeds(q, s))
      rows == [i \in DOMAIN crossings |->
                 [frame |-> FrameNumber(q.frames, crossings[i].time), sample |-> crossings[i]]]
      firsts == {i \in DOMAIN rows : \A j \in 1 .. i - 1 : rows[j].frame # rows[i].frame}
      events == FirstOf(RowsAt(rows, firsts), q.limit)
  IN  [events |-> events, total |-> Len(crossings), truncated |-> Len(events) < Len(crossings)]

EmitFramesWhereCounterExceeds(q) == IF q.missing # {} THEN Refusal ELSE FramesOver(q)

\* The instances of a region, in the order of the timelines that hold them.
Instances(q) ==
  LET found == Selected(RowsOf(q.groups, LAMBDA g : TRUE), LAMBDA r : r.name = q.region)
  IN  [i \in DOMAIN found |->
         [found[i] EXCEPT !.end = IF found[i].end = Open THEN q.duration
                                  ELSE Lesser(found[i].end, q.duration)]]

\* Timeline by timeline, instance by instance: the events that overlap the
\* instance.  The prefix filters what is emitted, not what is counted.
EventsInside(q) ==
  LET instances == Instances(q)
      Inside(events, inst) ==
        LET over == Overlapping(events, inst.start, inst.end)
        IN  [i \in DOMAIN over |-> [region |-> inst.id, event |-> over[i]]]
      InTimeline(events) == Joined([i \in DOMAIN instances |-> Inside(events, instances[i])])
      all  == Joined([t \in DOMAIN q.timelines |-> InTimeline(q.timelines[t])])
      kept == Selected(all, LAMBDA r : q.prefix => r.event.prefixed)
      events == FirstOf(kept, q.limit)
  IN  [events |-> events, total |-> Len(all), truncated |-> Len(events) < Len(all)]

EmitEventsInsideRegion(q) == IF q.missing # {} THEN Refusal ELSE EventsInside(q)

LogsNear(q, frame) ==
  Selected(q.rows, LAMBDA l : /\ l.time >= Greater(0, frame.start - q.window)
                               /\ l.time <= frame.end + q.window)

\* A frame is slow from the percentile on.  The logs near slow frames that
\* come after the limit is reached are not counted.
MutStrictlySlower(q, frame) ==
  LET durations == [i \in DOMAIN q.frames |-> q.frames[i].end - q.frames[i].start]
  IN  (frame.end - frame.start) * q.quantile.den > GetPercentile(durations, q.quantile)
IsSlow(q, frame) ==
  LET durations == [i \in DOMAIN q.frames |-> q.frames[i].end - q.frames[i].start]
  IN  (frame.end - frame.start) * q.quantile.den >= GetPercentile(durations, q.quantile)

LogsAround(q) ==
  LET slow == Selected(q.frames, LAMBDA f : IsSlow(q, f))
      Near(frame) == LET near == LogsNear(q, frame)
                     IN  [i \in DOMAIN near |-> [frame |-> frame.id, log |-> near[i]]]
      RowsOfFirst(n) == Joined([i \in 1 .. n |-> Near(slow[i])])
      visited == {n \in DOMAIN slow : Len(RowsOfFirst(n - 1)) < q.limit}
      events  == FirstOf(RowsOfFirst(Len(slow)), q.limit)
      total   == Len(RowsOfFirst(Cardinality(visited)))
  IN  [events |-> events, total |-> total, slow |-> Len(slow), truncated |-> Len(events) < total]

\* Where there are no frames the answer has neither a count nor a flag.  The
\* verbosity that the intent's parameters offer, q.verbosity, is read nowhere.
EmitLogsAroundSlowFrames(q) ==
  IF q.quantile.num <= 0 \/ q.quantile.num >= q.quantile.den THEN Refusal
  ELSE IF q.frames = <<>> THEN [events |-> <<>>, slow |-> 0]
  ELSE LogsAround(q)
=============================================================================
