---------------------------- MODULE MCLoadedTrace ---------------------------
(***************************************************************************)
(* LoadedTrace with small traces, made by hand so that limits are met       *)
(* exactly, ranges run past the end, names are borne twice, regions stay   *)
(* open, rows have nothing behind them and lists are empty.                *)
(***************************************************************************)
EXTENDS LoadedTrace

MCDuration == 10

F(id, start, end) == [id |-> id, start |-> start, end |-> end]
MCFrames == <<F(0, 0, 4), F(1, 4, 6), F(2, 6, 9)>>
MCFramesApart == <<F(0, 0, 3), F(1, 6, 7), F(2, 7, 9)>>

With(records, more) == {r @@ m : r \in records, m \in more}
RowLimits == {[limit |-> n] : n \in 1 .. 4}
Ranges == {[first |-> a, past |-> b, frames |-> fs, duration |-> MCDuration] :
             a \in {-1, 0, 1, 3}, b \in {-1, 1, 2, 3, 5}, fs \in {MCFrames, MCFramesApart}}

-----------------------------------------------------------------------------
(* Rows of listings.                                                       *)

Msg(id, v, c, m) == [id |-> id, verbosity |-> v, category |-> c, matches |-> m]
LogQuestions ==
  With({[rows |-> <<Msg(1, 5, "net", TRUE), Msg(2, 3, "gc", FALSE), Msg(3, 7, "net", TRUE),
                    Msg(4, 1, "net", FALSE), Msg(5, 6, "gc", TRUE)>>,
         verbosity |-> v, category |-> c, grep |-> g] :
          v \in {"all", "warning", "warn", "verbose", "nonsense"}, c \in {"", "net"}, g \in BOOLEAN}, RowLimits)

Plain(n) == [i \in 1 .. n |-> [id |-> i]]

Reg(id, name, start, end) ==
  [id |-> id, name |-> name, start |-> start, end |-> end, prefixed |-> name = "map"]
MCRegions == <<[category |-> "load", rows |-> <<Reg(1, "map", 0, 4), Reg(2, "gc", 4, 5)>>],
               [category |-> "game", rows |-> <<Reg(3, "map", 2, Open), Reg(4, "map", 6, 6)>>],
               [category |-> "load", rows |-> <<>>]>>

MCGroups == <<[id |-> 0, rows |-> <<[id |-> 1], [id |-> 2]>>], [id |-> 1, rows |-> <<>>],
              [id |-> 2, rows |-> <<[id |-> 3]>>]>>

Span(id, start, end, info) == [id |-> id, start |-> start, end |-> end, info |-> info]
MCSpans == <<Span(1, 0, 2, TRUE), Span(2, 1, 7, FALSE), Span(3, 5, 5, TRUE), Span(4, 8, 10, TRUE)>>

Packet(n) == [i \in 1 .. n |-> [id |-> i - 1]]
PacketQuestions ==
  With({[rows |-> Packet(n), packetStart |-> a, packetEnd |-> b] :
          n \in {0, 3, 5}, a \in {-1, 0, 2, 4}, b \in {-1, 2, 8}}, RowLimits)

Smp(time, value) == [time |-> time, value |-> value]
MCPoints == <<Smp(0, 3), Smp(3, 0), Smp(4, 5), Smp(5, 2), Smp(9, 7), Smp(10, 1), Smp(12, 6)>>

CrossingQuestions ==
  With({[frames |-> fs, rows |-> MCPoints, threshold |-> n, orEqual |-> e, missing |-> m] :
          fs \in {MCFrames, <<>>}, n \in {2, 5}, e \in BOOLEAN, m \in {{}, {"counter"}}}, RowLimits)

Line(id, time, v) == [id |-> id, time |-> time, verbosity |-> v]
SlowLogQuestions ==
  With({[frames |-> fs, quantile |-> p, window |-> w, verbosity |-> v,
         rows |-> <<Line(1, 0, 5), Line(2, 4, 2), Line(3, 5, 7), Line(4, 8, 3)>>] :
          fs \in {MCFrames, MCFramesApart, <<F(0, 1, 5)>>, <<>>}, w \in {0, 2}, v \in {"", "error"},
          p \in {P50, P99, [num |-> 1, den |-> 3], [num |-> 0, den |-> 1], [num |-> 1, den |-> 1]}},
       RowLimits)

-----------------------------------------------------------------------------
(* Traces of events.                                                       *)

Timer(name, scope, prefixed) == [name |-> name, scope |-> scope, prefixed |-> prefixed]
MCTimers == <<Timer("tick", "cpu", TRUE), Timer("draw", "cpu", FALSE), Timer("tick", "cpu", TRUE),
              Timer("shade", "gpu", TRUE), Timer(NoName, "cpu", FALSE), Timer("tick", "gpu", TRUE)>>

Ev(id, timer, start, end, depth) ==
  [id |-> id, timer |-> timer, start |-> start, end |-> end, depth |-> depth,
   prefixed |-> timer \in {1, 3, 4, 6}]

\* Two threads, an empty one, a GPU queue and the older GPU timeline.
Busyish == <<<<Ev(1, 1, 0, 4, 0), Ev(2, 2, 1, 2, 1), Ev(3, 3, 2, 3, 1), Ev(4, 5, 5, 9, 0), Ev(5, 2, 6, 7, 1)>>,
             <<Ev(6, 2, 2, 6, 0), Ev(7, 1, 6, 8, 0)>>, <<>>,
             <<Ev(8, 4, 1, 3, 0), Ev(9, 6, 4, 9, 0)>>, <<Ev(10, 4, 0, 5, 0), Ev(11, 4, 5, 6, 0)>>>>
Quiet   == <<<<Ev(1, 2, 3, 4, 0), Ev(2, 1, 6, 9, 0)>>, <<>>, <<>>, <<Ev(3, 4, 0, 9, 0)>>, <<>>>>

Queue(id, timeline) == [id |-> id, timeline |-> timeline]
Newer == [queues |-> <<Queue(7, 4), Queue(8, 0), Queue(9, 3)>>, legacy |-> <<5>>]
Older == [queues |-> <<>>, legacy |-> <<4, 5>>]

Traces ==
  With({[timelines |-> t, timers |-> MCTimers, threads |-> <<1, 2, 3>>, frames |-> MCFrames,
         duration |-> MCDuration, groups |-> g] : t \in {Busyish, Quiet}, g \in {MCRegions, <<>>}},
       {Newer, Older})

WithPrefix == {[prefix |-> p] : p \in BOOLEAN}
DigestQuestions == With(With(Traces, WithPrefix), RowLimits)

EventQuestions ==
  With(With({r \in Ranges : r.first \in {-1, 1} /\ r.past \in {-1, 2, 3, 5}}, Traces),
       {[event |-> n, channel |-> c, prefix |-> FALSE] :
          n \in {"tick", "draw", "shade", "map", "none"}, c \in {"cpu", "gpu", "region"}})

ButterflyQuestions ==
  With({[timers |-> MCTimers, event |-> n,
         children |-> [t \in 1 .. 6 |->
           IF t = 1 THEN {[name |-> "draw", total |-> 3], [name |-> NoName, total |-> 5],
                          [name |-> "gc", total |-> 3]} ELSE {}]] :
          n \in {"tick", "draw", "none"}}, RowLimits)

-----------------------------------------------------------------------------
(* Pairs of traces.                                                        *)

Tag(name, samples) == [name |-> name, samples |-> samples]
Cnt(name, values) == [name |-> name, values |-> values]
Sides ==
  LET Side(t, gpu, tags, counters, points) ==
        [timelines |-> t, timers |-> MCTimers, duration |-> MCDuration, groups |-> MCRegions,
         prefix |-> FALSE, tags |-> tags, counters |-> counters, points |-> points] @@ gpu
      Pt(t, l, a, f) == [total |-> t, live |-> l, allocs |-> a, frees |-> f]
  IN  {Side(Busyish, Newer, <<Tag("ui", <<1, 4>>), Tag("ai", <<>>)>>,
            <<Cnt("fps", <<3, 1>>), Cnt("rss", <<-2>>)>>, <<Pt(5, 2, 3, 1), Pt(4, 3, 0, 2)>>),
       Side(Quiet, Older, <<Tag("ai", <<2>>), Tag("ai", <<5>>)>>,
            <<Cnt("fps", <<>>), Cnt("rss", <<4, 6>>)>>, <<>>),
       Side(<<<<Ev(1, 3, 0, 9, 0)>>, <<>>, <<>>, <<>>, <<>>>>, Newer, <<>>, <<>>, <<Pt(0, 0, 0, 0)>>)}

CompareQuestions ==
  {[channel |-> c, a |-> x, b |-> y, threshold |-> n, limit |-> l] :
     c \in {"cpu", "gpu", "region", "memory", "counter", "memalloc"},
     x \in Sides, y \in Sides, n \in {0, 200}, l \in {1, 9}}

-----------------------------------------------------------------------------
(* Series and tags.                                                        *)

SeriesQuestions ==
  {[found |-> f, duration |-> d, buckets |-> n, points |-> p] :
     f \in BOOLEAN, d \in {5, MCDuration}, n \in {1, 3, 4}, p \in {MCPoints, <<>>}}

Node(name, parent, trackers) == [name |-> name, parent |-> parent, trackers |-> trackers]
MCTags == {
  ("1" :> Node("root", NoTag, {0, 1})) @@ ("2" :> Node("ui", "1", {0})) @@
  ("3" :> Node("text", "2", {1})) @@ ("4" :> Node("ui", "7", {0})),
  ("1" :> Node("ui", "2", {0})) @@ ("2" :> Node("text", "3", {1})) @@ ("3" :> Node("root", "1", {}))}

TagQuestions ==
  {[tags |-> t, order |-> <<"3", "2", "1">>, tag |-> n, numbers |-> {"1", "2", "3", "4", "7"},
    tracker |-> k, duration |-> MCDuration, buckets |-> 3,
    samples |-> ("1" :> MCPoints) @@ ("2" :> <<>>)] :
     t \in MCTags, n \in {"1", "3", "4", "7", "ui", "text", "none"}, k \in {NoTracker, 0, 1, 3}}

Catalogued == {[rows |-> Plain(n)] : n \in 0 .. 2}

MCQuestions ==
  [logs |-> LogQuestions,
   bookmarks |-> With({[rows |-> Plain(n)] : n \in {0, 2, 3}}, RowLimits),
   regions |-> With({[groups |-> MCRegions, category |-> c, duration |-> MCDuration] :
                       c \in {"", "load", "none"}}, RowLimits),
   fences |-> With({[groups |-> MCGroups, group |-> g] : g \in {-1, 0, 1, 5}}, RowLimits),
   objects |-> With({[groups |-> MCGroups, group |-> g] : g \in {-1, 2}}, RowLimits),
   tasks |-> With(With({[rows |-> MCSpans]}, Ranges), RowLimits),
   assets |-> With(With({[rows |-> MCSpans]}, Ranges), RowLimits),
   packets |-> PacketQuestions,
   crossings |-> CrossingQuestions,
   inside |-> With({[groups |-> MCRegions, timelines |-> Busyish, region |-> r, prefix |-> p,
                     duration |-> MCDuration, cpu |-> 1 .. 3, missing |-> m] :
                      r \in {"map", "gc", "none"}, p \in BOOLEAN, m \in {{}, {"provider"}}},
                  RowLimits \cup {[limit |-> 6], [limit |-> 40]}),
   slow_logs |-> SlowLogQuestions,
   frames |-> With(Ranges, RowLimits),
   cpu_digest |-> DigestQuestions, gpu_digest |-> DigestQuestions,
   region_digest |-> DigestQuestions, overview |-> DigestQuestions,
   threads |-> With(Traces, RowLimits),
   gpu_queues |-> Traces,
   gpu_timeline |-> With(With(Traces, {[group |-> g] : g \in {-1, 7, 8}}), RowLimits),
   timeline |-> EventQuestions,
   frame |-> With(With(Traces, {[frame |-> i] : i \in {0, 1, 5}}), RowLimits),
   butterfly |-> ButterflyQuestions,
   compare |-> CompareQuestions,
   counter |-> SeriesQuestions, allocations |-> SeriesQuestions,
   tags |-> TagQuestions, samples |-> TagQuestions,
   task_drill |-> {[rows |-> MCSpans, taskId |-> id, first |-> -1, past |-> -1, frames |-> MCFrames,
                    duration |-> MCDuration, limit |-> 9] : id \in 0 .. 5},
   callstack |-> {[stack |-> s] : s \in UNION {[1 .. n -> {"known", "unresolved", Missing}] : n \in 0 .. 3}},
   channels |-> Catalogued, counters |-> Catalogued, trackers |-> Catalogued, modules |-> Catalogued,
   instances |-> {[groups |-> MCGroups], [groups |-> <<>>]},
   connections |-> {[groups |-> MCGroups, group |-> g] : g \in {-1, 0, 1, 2}},
   heaps |-> {[roots |-> Plain(n), heaps |-> Plain(m)] : n \in 0 .. 3, m \in 0 .. 2},
   sample |-> {[stream |-> s, cap |-> c] : s \in {<<4>>, <<2, 9, 5>>, <<7, 1, 8, 3>>}, c \in 1 .. 3}]
=============================================================================
