------------------------------ MODULE Timings ------------------------------
(***************************************************************************)
(* The query modes of TraceDigest about timed events (Digest, Overview,    *)
(* Threads, Frame, Timeline, Butterfly and the Gpu views) as functions of  *)
(* a trace and the arguments:                                              *)
(*   q.timelines  sequences of events: timer, start, end, depth            *)
(*   q.timers     per timer its name (NoName if it has none) and scope     *)
(*   q.threads    per thread the number of its timeline                    *)
(*   q.queues     GPU queues: id and timeline (0 if it has none)           *)
(*   q.legacy     the timelines Gpu1 and Gpu2 of older traces              *)
(*   q.frames     the Game thread's frames                                 *)
(* Sorting leaves ties open, so an answer is one of a set.                 *)
(***************************************************************************)
EXTENDS Listings

CONSTANTS NoName,         \* the name of a timer that has none
          OverviewTop,    \* rows of an overview (10)
          SlowestShown,   \* slowest frames of an overview (3)
          TopPerThread    \* timers shown of a thread (10)

Duration(event) == event.end - event.start

AllEvents(q) == Joined(q.timelines)

TimersOf(events) == {events[i].timer : i \in DOMAIN events}

EventsOfTimer(events, timer) == Selected(events, LAMBDA e : e.timer = timer)

Durations(events) == [i \in DOMAIN events |-> Duration(events[i])]

\* The timelines of GPU work: those of the queues, or else the legacy ones.
GpuTimelines(q) ==
  LET queues == Selected([i \in DOMAIN q.queues |-> q.queues[i].timeline], LAMBDA t : t # 0)
  IN  IF queues # <<>> THEN queues ELSE q.legacy

GpuEvents(q) ==
  LET timelines == GpuTimelines(q)
  IN  Joined([i \in DOMAIN timelines |-> q.timelines[timelines[i]]])

-----------------------------------------------------------------------------
(* Digest and overview: one row per timer of the channel's scope that has  *)
(* a name of the prefix, the largest totals first.                         *)

MutAnyScope(q, events, scope) ==
  {Widened([name |-> q.timers[t].name, timer |-> t], Stats(Durations(EventsOfTimer(events, t)))) :
     t \in {t \in TimersOf(events) :
              q.timers[t].name # NoName /\ (q.prefix => q.timers[t].prefixed)}}
DigestRows(q, events, scope) ==
  {Widened([name |-> q.timers[t].name, timer |-> t], Stats(Durations(EventsOfTimer(events, t)))) :
     t \in {t \in TimersOf(events) : /\ q.timers[t].name # NoName
                                     /\ q.timers[t].scope = scope
                                     /\ q.prefix => q.timers[t].prefixed}}

RowTotal(row) == row.total

RunCpuDigest(q) == TopRows(DigestRows(q, AllEvents(q), "cpu"), RowTotal, q.limit)

RunGpuDigest(q) == TopRows(DigestRows(q, GpuEvents(q), "gpu"), RowTotal, q.limit)

\* Regions go by name; one still open ends with the trace.
ClampedRegion(q, region) ==
  [name |-> region.name, start |-> Greater(region.start, 0),
   end  |-> IF region.end = Open THEN q.duration ELSE Lesser(region.end, q.duration)]

CountedRegions(q) ==
  LET wanted == Selected(RowsOf(q.groups, LAMBDA g : TRUE), LAMBDA r : q.prefix => r.prefixed)
  IN  Selected([i \in DOMAIN wanted |-> ClampedRegion(q, wanted[i])], LAMBDA r : r.end >= r.start)

RegionRows(q) ==
  LET counted == CountedRegions(q)
  IN  {Widened([name |-> n], Stats(Durations(Selected(counted, LAMBDA r : r.name = n)))) :
         n \in {counted[i].name : i \in DOMAIN counted}}

RunRegionDigest(q) == TopRows(RegionRows(q), RowTotal, q.limit)

\* Frame statistics, the slowest frames, and a digest of its own limit.
RunOverview(q) ==
  [stats   : {Stats(Durations(q.frames))},
   slowest : TopRows(ToSet(q.frames), Duration, SlowestShown),
   events  : TopRows(DigestRows(q, AllEvents(q), "cpu"), RowTotal, Lesser(q.limit, OverviewTop))]

-----------------------------------------------------------------------------
(* Inclusive time per timer, of a thread or of a GPU queue.  The rows are  *)
(* cut off first and those without a name dropped after.                   *)

TimerRows(events) ==
  {[timer |-> t, count |-> Len(EventsOfTimer(events, t)),
    total |-> SumOf(Durations(EventsOfTimer(events, t)))] : t \in TimersOf(events)}

TopTimers(q, events, n) ==
  {Selected(top, LAMBDA row : q.timers[row.timer].name # NoName) :
     top \in TopRows(TimerRows(events), RowTotal, n)}

\* The threads that have a timeline with events, the busiest first: busy is
\* the time of the outermost events.
MutBusyAnyDepth(events) == SumOf(Durations(events))
Busy(events) == SumOf(Durations(Selected(events, LAMBDA e : e.depth = 0)))

ThreadRows(q) ==
  {[thread |-> th, count |-> Len(q.timelines[q.threads[th]]),
    busy |-> Busy(q.timelines[q.threads[th]])] :
     th \in {th \in DOMAIN q.threads : q.timelines[q.threads[th]] # <<>>}}

RunThreads(q) ==
  UNION {{[i \in DOMAIN order |-> Widened(order[i], [timers |-> choice[i]])] :
            choice \in {c \in [DOMAIN order ->
                                 UNION {TopTimers(q, q.timelines[t], TopPerThread) :
                                          t \in DOMAIN q.timelines}] :
                          \A i \in DOMAIN order :
                            c[i] \in TopTimers(q, q.timelines[q.threads[order[i].thread]],
                                               TopPerThread)}} :
         order \in TopRows(ThreadRows(q), LAMBDA row : row.busy, q.limit)}

\* The queues as the queues view lists them, and the per-queue digest, which
\* knows only the queues of the newer interface.
RunGpuQueues(q) ==
  IF q.queues # <<>> THEN q.queues
  ELSE [i \in DOMAIN q.legacy |-> [id |-> i - 1, timeline |-> q.legacy[i]]]

RunGpuTimeline(q) ==
  LET chosen == Selected(q.queues, LAMBDA u : GroupChosen(q, u))
      Events(u) == IF u.timeline = 0 THEN <<>> ELSE q.timelines[u.timeline]
      Tops == UNION {TopTimers(q, Events(chosen[i]), q.limit) : i \in DOMAIN chosen}
  IN  {[i \in DOMAIN chosen |-> [queue |-> chosen[i].id, count |-> Len(Events(chosen[i])),
                                 timers |-> choice[i]]] :
         choice \in {c \in [DOMAIN chosen -> Tops] :
                       \A i \in DOMAIN chosen :
                         c[i] \in TopTimers(q, Events(chosen[i]), q.limit)}}

-----------------------------------------------------------------------------
(* Instances of one event.                                                 *)

\* FindTimerIdsByName: only timers of CPU scopes, whatever the channel.
TimerIdsByName(q) ==
  {t \in DOMAIN q.timers : q.timers[t].name = q.event /\ q.timers[t].scope = "cpu"}

\* The CPU channel walks every timeline.
EmitTimingInstances(q) ==
  LET window == ResolveWindow(q)
      events == IF q.channel = "gpu" THEN GpuEvents(q) ELSE AllEvents(q)
      found  == Selected(Overlapping(events, window.start, window.end),
                         LAMBDA e : e.timer \in TimerIdsByName(q))
  IN  [i \in DOMAIN found |->
         [frame |-> FrameNumber(q.frames, found[i].start), start |-> found[i].start,
          duration |-> Duration(found[i])]]

EmitRegionInstances(q) ==
  LET window == ResolveWindow(q)
      Clamped(r) ==
        [start |-> Greater(r.start, window.start),
         end   |-> IF r.end = Open THEN window.end ELSE Lesser(r.end, window.end)]
      named  == Selected(RowsOf(q.groups, LAMBDA g : TRUE), LAMBDA r : r.name = q.event)
      inside == Selected(named, LAMBDA r : /\ r.start <= window.end
                                           /\ r.end = Open \/ r.end >= window.start)
      found  == Selected([i \in DOMAIN inside |-> Clamped(inside[i])],
                         LAMBDA r : r.end >= r.start)
  IN  [i \in DOMAIN found |->
         [frame |-> FrameNumber(q.frames, found[i].start), start |-> found[i].start,
          duration |-> Duration(found[i])]]

RunTimeline(q) ==
  IF q.channel = "region" THEN EmitRegionInstances(q) ELSE EmitTimingInstances(q)

\* The events of one frame: those that began in it and whose timer is a CPU
\* scope with a name, the longest first.  Each keeps its place, so that equal
\* events stay two rows.
RanInFrame(q, frame, event) ==
  /\ event.start >= frame.start /\ event.start <= frame.end
  /\ q.timers[event.timer].name # NoName
  /\ q.timers[event.timer].scope = "cpu"

RunFrame(q) ==
  IF ~HasFrame(q, q.frame) THEN {<<>>}
  ELSE LET events == AllEvents(q)
           rows == {[row |-> i, start |-> events[i].start, duration |-> Duration(events[i])] :
                      i \in {i \in DOMAIN events :
                               RanInFrame(q, q.frames[q.frame + 1], events[i])}}
       IN  TopRows(rows, LAMBDA row : row.duration, q.limit)

\* Callers or callees: the children that TraceServices puts under the first
\* timer found of that name, the largest first, then those with a name.
RunButterfly(q) ==
  IF TimerIdsByName(q) = {} THEN {<<>>}
  ELSE {Selected(top, LAMBDA child : child.name # NoName) :
          top \in TopRows(q.children[Min(TimerIdsByName(q))], RowTotal, q.limit)}
=============================================================================
